---- MODULE Spec2Model ----
(***************************************************************************)
(* The scope-structured execution engine of the AvidaGP virtual CPU        *)
(* (src/hardware/AvidaGPOthello.h): register file, register-backup stack,  *)
(* scope stack, call stack, function table and the dispatch loop.          *)
(*                                                                         *)
(* Positions (inst_ptr, start_pos, call-stack entries, fun_starts) are     *)
(* 0-based as in the source; the genome is a TLA+ sequence, so the         *)
(* instruction at position p is genome[p + 1].                             *)
(* Registers are doubles in the source; the instructions modelled here     *)
(* (the division only by a register holding 0 or 1) keep them integral,    *)
(* so they are integers. The memory blocks and the game board, and the     *)
(* instructions that read and write them, are not modelled.                *)
(* A failed emp_assert is recorded in `fault`; execution then goes on as   *)
(* in a build with the assertions compiled out.                            *)
(***************************************************************************)
EXTENDS Integers, Sequences, FiniteSets, TLC

VARIABLES
    genome,       \* genome_t genome
    regs,         \* emp::array<double, CPU_SIZE> regs
    inputs,       \* std::unordered_map<int, double> inputs
    outputs,      \* std::unordered_map<int, double> outputs
    fun_starts,   \* emp::array<int, CPU_SIZE> fun_starts
    inst_ptr,     \* size_t inst_ptr
    scope_stack,  \* emp::vector<ScopeInfo> scope_stack
    reg_stack,    \* emp::vector<RegBackup> reg_stack
    call_stack,   \* emp::vector<size_t> call_stack
    errors,       \* size_t errors
    traits,       \* emp::vector<double> traits
    \* ---- history variables (observation only, never read by the engine) ----
    log,          \* events of the last step: dispatches, pushes, exits, resets
    prev,         \* the machine as it was when the last step or reset began
    shadow,       \* backups pushed by ScopeReg, keyed by the owning frame's stack index
    execs,        \* position -> number of times its handler ran since hardware reset
    wraps,        \* number of ResetIP calls since hardware reset
    fault,        \* assertions of the source that have failed since hardware reset
    called,       \* function slots entered by a Call since hardware reset
    steps,        \* SingleProcess calls since hardware reset
    proc,         \* the last call of Process, if it was the last operation
    \* ---- several machines on one instruction library ----
    fleet,        \* the library and the machines built on it (empty when one machine is studied)
    \* ---- the first calls of DefaultInstLib() ----
    lib           \* the static library object and the threads that are constructing machines

vars == <<genome, regs, inputs, outputs, fun_starts, inst_ptr, scope_stack, reg_stack, call_stack,
          errors, traits, log, prev, shadow, execs, wraps, fault, called, steps, proc, fleet, lib>>

----------------------------------------------------------------------------
(* Program constants *)

CPU_SIZE == 16

\* the trait that EndTurn sets and Process polls: SetTrait(100, 1), GetTrait(100)
HALT_TRAIT == 100

(* Bounds of the model *)

MaxArg == 1      \* scope depths of the exhaustively enumerated genomes are 0..MaxArg
MaxLen == 2      \* length of the exhaustively enumerated genomes
MaxSteps == 5    \* steps explored beyond one pass over the genome
MaxNest == 2     \* Basic scopes nested inside a loop or function body
MaxV == 2        \* initial value of a countdown loop's guard register
MaxBk == 2       \* register backups pushed in one scope
MaxProc == 3     \* Process(n) is called with n in 0..MaxProc
FleetSize == 2   \* machines sharing one instruction library
MaxRun == 4      \* SingleProcess calls made on each of these machines

----------------------------------------------------------------------------
(* Instructions and the instruction catalog *)

Inst(id, a0, a1, a2) == [id |-> id, args |-> <<a0, a1, a2>>]

\* inst.args[i] with the source's 0-based index
Arg(inst, i) == inst.args[i + 1]

GetScopeType(id) ==
    CASE id = "If"        -> "BASIC"
      [] id = "While"     -> "LOOP"
      [] id = "Countdown" -> "LOOP"
      [] id = "Scope"     -> "BASIC"
      [] id = "Define"    -> "FUNCTION"
      [] OTHER            -> "NONE"

GetScopeArg(id) ==
    CASE id = "If"        -> 1
      [] id = "While"     -> 1
      [] id = "Countdown" -> 1
      [] id = "Scope"     -> 0
      [] id = "Define"    -> 1
      [] OTHER            -> 0

InstScope(inst) ==
    IF GetScopeType(inst.id) = "NONE" THEN 0
    ELSE Arg(inst, GetScopeArg(inst.id)) + 1

\* GetInst(pos): genome[pos]
GetInst(pos) == genome[pos + 1]

\* genome[pos] inside a member function of the machine m
GenomeAt(m, pos) == m.genome[pos + 1]

----------------------------------------------------------------------------
(* The machine as one record, so that handlers are functions on it *)

HW == [genome |-> genome, regs |-> regs, inputs |-> inputs, outputs |-> outputs,
       fun_starts |-> fun_starts, inst_ptr |-> inst_ptr,
       scope_stack |-> scope_stack, reg_stack |-> reg_stack,
       call_stack |-> call_stack, errors |-> errors, traits |-> traits,
       log |-> log, shadow |-> shadow, execs |-> execs, wraps |-> wraps,
       fault |-> fault, called |-> called, lvl |-> 0]

\* The state of the execution engine, without the traits and the history fields
Core(m) == [regs |-> m.regs, fun_starts |-> m.fun_starts, inst_ptr |-> m.inst_ptr,
            scope_stack |-> m.scope_stack, reg_stack |-> m.reg_stack,
            call_stack |-> m.call_stack, errors |-> m.errors]

ScopeInfo(s, t, p) == [scope |-> s, type |-> t, start_pos |-> p]

RegBackup(s, r, v) == [scope |-> s, reg_id |-> r, value |-> v]

Back(s) == s[Len(s)]

PopBack(s) == SubSeq(s, 1, Len(s) - 1)

\* scope_stack.back().scope; the stack is never empty where the source reads it
\* (see InvC1), the value 0 stands for the read of an empty vector
CurScope(m) == IF Len(m.scope_stack) = 0 THEN 0 ELSE Back(m.scope_stack).scope

CurScopeType(m) ==
    IF Len(m.scope_stack) = 0 THEN "ROOT" ELSE Back(m.scope_stack).type

----------------------------------------------------------------------------
(* ExitScope *)

\* every pending backup restored, whatever scope owns it (the second loop of ResetIP)
RECURSIVE RestoreAll(_)
RestoreAll(m) ==
    IF Len(m.reg_stack) > 0
    THEN RestoreAll([m EXCEPT !.regs[Back(m.reg_stack).reg_id] = Back(m.reg_stack).value,
                              !.reg_stack = PopBack(m.reg_stack)])
    ELSE m

\* Faulty variants of the restore loop of ExitScope: the loop left out; an `if`
\* in place of the `while`; the test of the owning scope left out.
RestoreBackups_None(m) == m

RestoreBackups_Once(m) ==
    IF Len(m.reg_stack) > 0 /\ Back(m.reg_stack).scope = CurScope(m)
    THEN [m EXCEPT !.regs[Back(m.reg_stack).reg_id] = Back(m.reg_stack).value,
                   !.reg_stack = PopBack(m.reg_stack)]
    ELSE m

RestoreBackups_AnyOwner(m) == RestoreAll(m)

\* while (reg_stack.size() && reg_stack.back().scope == CurScope()) { restore; pop }
RECURSIVE RestoreBackups(_)
RestoreBackups(m) ==
    IF Len(m.reg_stack) > 0 /\ Back(m.reg_stack).scope = CurScope(m)
    THEN RestoreBackups([m EXCEPT !.regs[Back(m.reg_stack).reg_id] = Back(m.reg_stack).value,
                                  !.reg_stack = PopBack(m.reg_stack)])
    ELSE m

ExitScope(m) ==
    LET a1 == IF Len(m.scope_stack) > 1 THEN {} ELSE {"ExitScope: scope_stack.size() > 1"}
        a2 == IF Len(m.scope_stack) <= CPU_SIZE THEN {}
              ELSE {"ExitScope: scope_stack.size() <= CPU_SIZE"}
        idx == Len(m.scope_stack)
        r == RestoreBackups(m)
        \* a failed first assertion ends a debug build; the frame is then not popped
        p == IF a1 = {} THEN [r EXCEPT !.scope_stack = PopBack(r.scope_stack)] ELSE m
        owed == SelectSeq(m.shadow, LAMBDA b : b.idx = idx)
        ev == [k |-> "exit", pre |-> Core(m), post |-> Core(p), owed |-> owed,
               restored |-> [i \in 1 .. (Len(m.reg_stack) - Len(p.reg_stack)) |->
                                 m.reg_stack[Len(m.reg_stack) + 1 - i]]]
    IN [p EXCEPT !.fault = @ \cup a1 \cup a2,
                 !.shadow = SelectSeq(m.shadow, LAMBDA b : b.idx < idx),
                 !.log = Append(@, ev)]

----------------------------------------------------------------------------
(* UpdateScope, BypassScope, ResetIP *)

RECURSIVE ProcessInst(_, _)

\* inst_lib->ProcessInst(*this, genome[inst_ptr])
Dispatch(m) == ProcessInst(m, GenomeAt(m, m.inst_ptr))

\* ResetIP: back to position 0, every scope but the root exited, every backup restored
RECURSIVE ExitAllScopes(_)
ExitAllScopes(m) ==
    IF Len(m.scope_stack) > 1 THEN ExitAllScopes(ExitScope(m)) ELSE m

\* Faulty variant: the backups that no exited scope owns are not restored
ResetIP_NoRestoreAll(m) ==
    LET m0 == [m EXCEPT !.inst_ptr = 0, !.wraps = @ + 1,
                        !.log = Append(@, [k |-> "reset", pre |-> Core(m)])]
        m1 == ExitAllScopes(m0)
    IN [m1 EXCEPT !.reg_stack = <<>>, !.call_stack = <<>>, !.shadow = <<>>]

\* Faulty variant: the call stack is not emptied
ResetIP_KeepCalls(m) ==
    LET m0 == [m EXCEPT !.inst_ptr = 0, !.wraps = @ + 1,
                        !.log = Append(@, [k |-> "reset", pre |-> Core(m)])]
        m1 == ExitAllScopes(m0)
        m2 == RestoreAll(m1)
    IN [m2 EXCEPT !.shadow = <<>>]

\* Faulty variant: the slots 0 and 1 of the function table are cleared as well
ResetIP_ClearFunStarts(m) ==
    LET m0 == [m EXCEPT !.inst_ptr = 0, !.wraps = @ + 1,
                        !.log = Append(@, [k |-> "reset", pre |-> Core(m)])]
        m1 == ExitAllScopes(m0)
        m2 == RestoreAll(m1)
    IN [m2 EXCEPT !.call_stack = <<>>, !.shadow = <<>>,
                  !.fun_starts[0] = -1, !.fun_starts[1] = -1]

\* Faulty variant: the registers get their initial values, as in ResetHardware
ResetIP_InitRegs(m) ==
    LET m0 == [m EXCEPT !.inst_ptr = 0, !.wraps = @ + 1,
                        !.log = Append(@, [k |-> "reset", pre |-> Core(m)])]
        m1 == ExitAllScopes(m0)
        m2 == RestoreAll(m1)
    IN [m2 EXCEPT !.call_stack = <<>>, !.shadow = <<>>,
                  !.regs = [i \in 0 .. CPU_SIZE - 1 |-> i]]

ResetIP(m) ==
    LET m0 == [m EXCEPT !.inst_ptr = 0, !.wraps = @ + 1,
                        !.log = Append(@, [k |-> "reset", pre |-> Core(m)])]
        m1 == ExitAllScopes(m0)
        m2 == RestoreAll(m1)
    IN [m2 EXCEPT !.call_stack = <<>>, !.shadow = <<>>]

\* Faulty variant: the frame records the position after the opening instruction
EnterScope_StartNext(m, new_scope, type) ==
    LET f == ScopeInfo(new_scope, type, m.inst_ptr + 1)
    IN [m EXCEPT !.scope_stack = Append(@, f),
                 !.log = Append(@, [k |-> "push", frame |-> f, lvl |-> m.lvl])]

\* Faulty variant: the frame gets the depth of the current frame
EnterScope_SameDepth(m, new_scope, type) ==
    LET f == ScopeInfo(CurScope(m), type, m.inst_ptr)
    IN [m EXCEPT !.scope_stack = Append(@, f),
                 !.log = Append(@, [k |-> "push", frame |-> f, lvl |-> m.lvl])]

\* scope_stack.emplace_back(new_scope, type, inst_ptr)
EnterScope(m, new_scope, type) ==
    LET f == ScopeInfo(new_scope, type, m.inst_ptr)
    IN [m EXCEPT !.scope_stack = Append(@, f),
                 !.log = Append(@, [k |-> "push", frame |-> f, lvl |-> m.lvl])]

\* a call of UpdateScope recorded in the history: argument, type, the machine
\* before (m) and after (r.hw), the value returned (r.ret)
Recorded(m, new_scope_arg, type, r) ==
    [hw |-> [r.hw EXCEPT !.log =
                 Append(@, [k |-> "update", arg |-> new_scope_arg, type |-> type,
                            lvl |-> m.lvl, pre |-> Core(m), post |-> Core(r.hw),
                            ret |-> r.ret])],
     ret |-> r.ret]

\* The argument new_scope is the value passed in; the source increments it first.
\* The result is the machine and the value returned.
RECURSIVE UpdateScope(_, _, _)
UpdateScope(m, new_scope_arg, type) ==
    LET cur_scope == CurScope(m)
        new_scope == new_scope_arg + 1
    IN Recorded(m, new_scope_arg, type,
             IF new_scope > cur_scope
             THEN [hw |-> EnterScope(m, new_scope, type), ret |-> TRUE]
             ELSE IF CurScopeType(m) = "LOOP"
             THEN LET m1 == [m EXCEPT !.inst_ptr = Back(m.scope_stack).start_pos]
                      m2 == ExitScope(m1)
                      m3 == Dispatch(m2)
                  IN [hw |-> m3, ret |-> FALSE]
             ELSE IF CurScopeType(m) = "FUNCTION"
             THEN IF Len(m.call_stack) = 0
                  THEN \* call_stack.back() of an empty vector: never reached
                       [hw |-> [m EXCEPT !.fault =
                                    @ \cup {"UpdateScope: call_stack.back() on empty"}],
                        ret |-> FALSE]
                  ELSE LET m1 == [m EXCEPT !.inst_ptr = Back(m.call_stack)]
                           m2 == IF m1.inst_ptr >= Len(m.genome) THEN ResetIP(m1)
                                 ELSE ExitScope([m1 EXCEPT !.call_stack = PopBack(@)])
                           m3 == Dispatch(m2)
                       IN [hw |-> m3, ret |-> FALSE]
             ELSE UpdateScope(ExitScope(m), new_scope, type))

\* Faulty variant of the scan: the pointer is not backed up at the instruction found
RECURSIVE BypassScan_NoBackUp(_, _)
BypassScan_NoBackUp(m, scope) ==
    IF m.inst_ptr + 1 < Len(m.genome)
    THEN LET ip == m.inst_ptr + 1
             test_scope == InstScope(GenomeAt(m, ip))
         IN IF test_scope # 0 /\ test_scope <= scope
            THEN [m EXCEPT !.inst_ptr = ip]
            ELSE BypassScan_NoBackUp([m EXCEPT !.inst_ptr = ip], scope)
    ELSE m

\* the forward scan of BypassScope: while (inst_ptr+1 < genome.size()) { ... }
RECURSIVE BypassScan(_, _)
BypassScan(m, scope) ==
    IF m.inst_ptr + 1 < Len(m.genome)
    THEN LET ip == m.inst_ptr + 1
             test_scope == InstScope(GenomeAt(m, ip))
         IN IF test_scope # 0 /\ test_scope <= scope
            THEN [m EXCEPT !.inst_ptr = ip - 1]
            ELSE BypassScan([m EXCEPT !.inst_ptr = ip], scope)
    ELSE m

\* a bypass recorded in the history: the pointer before (m) and after (r)
RecordedBypass(m, scope, r) ==
    [r EXCEPT !.log = Append(@, [k |-> "bypass", scope |-> scope, lvl |-> m.lvl,
                                 from |-> m.inst_ptr, to |-> r.inst_ptr])]

\* BypassScope once past its test: the exit and the scan
Bypass(m, scope) == RecordedBypass(m, scope, BypassScan(ExitScope(m), scope))

\* Faulty variant: the test `if (CurScope() < scope) return` left out
BypassScope_NoGuard(m, scope_arg) == Bypass(m, scope_arg + 1)

BypassScope(m, scope_arg) ==
    LET scope == scope_arg + 1
    IN IF CurScope(m) < scope THEN m
       ELSE Bypass(m, scope)

----------------------------------------------------------------------------
(* Instruction handlers *)

Inst_Inc(m, args) == [m EXCEPT !.regs[args[1]] = @ + 1]

Inst_Dec(m, args) == [m EXCEPT !.regs[args[1]] = @ - 1]

\* (double) of a comparison: 1.0 if it holds, 0.0 if not
AsDouble(b) == IF b THEN 1 ELSE 0

Inst_Not(m, args) == [m EXCEPT !.regs[args[1]] = AsDouble(m.regs[args[1]] = 0)]

Inst_SetReg(m, args) == [m EXCEPT !.regs[args[1]] = args[2]]

Inst_Add(m, args) == [m EXCEPT !.regs[args[3]] = m.regs[args[1]] + m.regs[args[2]]]

Inst_Sub(m, args) == [m EXCEPT !.regs[args[3]] = m.regs[args[1]] - m.regs[args[2]]]

Inst_Mult(m, args) == [m EXCEPT !.regs[args[3]] = m.regs[args[1]] * m.regs[args[2]]]

Inst_TestEqu(m, args) ==
    [m EXCEPT !.regs[args[3]] = AsDouble(m.regs[args[1]] = m.regs[args[2]])]

Inst_TestNEqu(m, args) ==
    [m EXCEPT !.regs[args[3]] = AsDouble(m.regs[args[1]] # m.regs[args[2]])]

Inst_TestLess(m, args) ==
    [m EXCEPT !.regs[args[3]] = AsDouble(m.regs[args[1]] < m.regs[args[2]])]

Inst_CopyVal(m, args) == [m EXCEPT !.regs[args[2]] = m.regs[args[1]]]

\* Find(map, key, dval) of tools/map_utils.h: the value at key, dval if there is none
Find(map, key, dval) == IF key \in DOMAIN map THEN map[key] ELSE dval

\* map[key] = val
Put(map, key, val) == [x \in DOMAIN map \cup {key} |-> IF x = key THEN val ELSE map[x]]

\* (int) of a register: the registers of the model hold whole numbers of small
\* size, which the conversion leaves as they are
ToInt(x) == x

Inst_Input(m, args) ==
    LET input_id == ToInt(m.regs[args[1]])
    IN [m EXCEPT !.regs[args[2]] = Find(m.inputs, input_id, 0)]

Inst_Output(m, args) ==
    LET output_id == ToInt(m.regs[args[2]])
    IN [m EXCEPT !.outputs = Put(@, output_id, m.regs[args[1]])]

\* the exact quotient a / b: the genomes explored divide by 0, 1 or -1 only
Quotient(a, b) == CHOOSE q \in {a, -a} : q * b = a

\* Faulty variant: a division by zero also writes 0 to the destination
Inst_Div_ZeroResult(m, args) ==
    LET denom == m.regs[args[2]]
    IN IF denom = 0 THEN [m EXCEPT !.errors = @ + 1, !.regs[args[3]] = 0]
       ELSE [m EXCEPT !.regs[args[3]] = Quotient(m.regs[args[1]], denom)]

Inst_Div(m, args) ==
    LET denom == m.regs[args[2]]
    IN IF denom = 0 THEN [m EXCEPT !.errors = @ + 1]
       ELSE [m EXCEPT !.regs[args[3]] = Quotient(m.regs[args[1]], denom)]

\* the source divides here as well: hw.regs[args[2]] = hw.regs[args[0]] / base
Inst_Mod(m, args) ==
    LET base == m.regs[args[2]]
    IN IF base = 0 THEN [m EXCEPT !.errors = @ + 1]
       ELSE [m EXCEPT !.regs[args[3]] = Quotient(m.regs[args[1]], base)]

\* A handler that calls UpdateScope is written in two parts: Name_Then(u, ...) is
\* what the handler Name does after the call, u being the result of the call.

\* Faulty variant: the test is inverted
Inst_If_Inverted_Then(u, args) ==
    IF u.ret = FALSE THEN u.hw
    ELSE IF u.hw.regs[args[1]] # 0 THEN BypassScope(u.hw, args[2])
    ELSE u.hw

Inst_If_Inverted(m, args) == Inst_If_Inverted_Then(UpdateScope(m, args[2], "BASIC"), args)

Inst_If_Then(u, args) ==
    IF u.ret = FALSE THEN u.hw
    ELSE IF u.hw.regs[args[1]] = 0 THEN BypassScope(u.hw, args[2])
    ELSE u.hw

Inst_If(m, args) == Inst_If_Then(UpdateScope(m, args[2], "BASIC"), args)

Inst_While_Then(u, args) ==
    IF u.ret = FALSE THEN u.hw
    ELSE IF u.hw.regs[args[1]] = 0 THEN BypassScope(u.hw, args[2])
    ELSE u.hw

Inst_While(m, args) == Inst_While_Then(UpdateScope(m, args[2], "LOOP"), args)

\* Faulty variant: the register is decremented before it is tested
Inst_Countdown_DecFirst_Then(u, args) ==
    LET d == [u.hw EXCEPT !.regs[args[1]] = @ - 1]
    IN IF u.ret = FALSE THEN u.hw
       ELSE IF d.regs[args[1]] = 0 THEN BypassScope(d, args[2])
       ELSE d

Inst_Countdown_DecFirst(m, args) ==
    Inst_Countdown_DecFirst_Then(UpdateScope(m, args[2], "LOOP"), args)

Inst_Countdown_Then(u, args) ==
    IF u.ret = FALSE THEN u.hw
    ELSE IF u.hw.regs[args[1]] = 0 THEN BypassScope(u.hw, args[2])
    ELSE [u.hw EXCEPT !.regs[args[1]] = @ - 1]

Inst_Countdown(m, args) == Inst_Countdown_Then(UpdateScope(m, args[2], "LOOP"), args)

Inst_Break(m, args) == BypassScope(m, args[1])

Inst_Scope(m, args) == UpdateScope(m, args[1], "BASIC").hw

Inst_Define_Then(u, args) ==
    IF u.ret = FALSE THEN u.hw
    ELSE BypassScope([u.hw EXCEPT !.fun_starts[args[1]] = u.hw.inst_ptr], args[2])

Inst_Define(m, args) == Inst_Define_Then(UpdateScope(m, args[2], "BASIC"), args)

\* def_pos >= genome.size(), where def_pos is (size_t) of an int: a negative int
\* converts to a value of at least 2^63, which no genome length reaches
DefPosPastEnd(m, fs) == fs < 0 \/ fs >= Len(m.genome)

\* Faulty variant: the position of the Call itself is pushed as the return address
Inst_Call_PushSelf_Then(u, args, def_pos) ==
    IF u.ret = FALSE THEN u.hw
    ELSE [u.hw EXCEPT !.call_stack = Append(@, u.hw.inst_ptr),
                      !.inst_ptr = def_pos + 1,
                      !.called = @ \cup {args[1]}]

Inst_Call_PushSelf(m, args) ==
    LET def_pos == m.fun_starts[args[1]]
    IN IF DefPosPastEnd(m, def_pos) \/ GetScopeType(GenomeAt(m, def_pos).id) # "FUNCTION"
       THEN m
       ELSE Inst_Call_PushSelf_Then(UpdateScope(m, Arg(GenomeAt(m, def_pos), 1), "FUNCTION"),
                        args, def_pos)

\* Faulty variant: a malformed call is counted as an error
Inst_Call_CountsError_Then(u, args, def_pos) ==
    IF u.ret = FALSE THEN u.hw
    ELSE [u.hw EXCEPT !.call_stack = Append(@, u.hw.inst_ptr + 1),
                      !.inst_ptr = def_pos + 1,
                      !.called = @ \cup {args[1]}]

Inst_Call_CountsError(m, args) ==
    LET def_pos == m.fun_starts[args[1]]
    IN IF DefPosPastEnd(m, def_pos) \/ GetScopeType(GenomeAt(m, def_pos).id) # "FUNCTION"
       THEN [m EXCEPT !.errors = @ + 1]
       ELSE Inst_Call_CountsError_Then(UpdateScope(m, Arg(GenomeAt(m, def_pos), 1), "FUNCTION"),
                        args, def_pos)

\* Faulty variant: the return address is not pushed
Inst_Call_NoReturnAddress_Then(u, args, def_pos) ==
    IF u.ret = FALSE THEN u.hw
    ELSE [u.hw EXCEPT !.inst_ptr = def_pos + 1,
                      !.called = @ \cup {args[1]}]

Inst_Call_NoReturnAddress(m, args) ==
    LET def_pos == m.fun_starts[args[1]]
    IN IF DefPosPastEnd(m, def_pos) \/ GetScopeType(GenomeAt(m, def_pos).id) # "FUNCTION"
       THEN m
       ELSE Inst_Call_NoReturnAddress_Then(
                UpdateScope(m, Arg(GenomeAt(m, def_pos), 1), "FUNCTION"), args, def_pos)

\* Faulty variant: the result of UpdateScope is not tested
Inst_Call_AlwaysPush_Then(u, args, def_pos) ==
    [u.hw EXCEPT !.call_stack = Append(@, u.hw.inst_ptr + 1),
                 !.inst_ptr = def_pos + 1,
                 !.called = @ \cup {args[1]}]

Inst_Call_AlwaysPush(m, args) ==
    LET def_pos == m.fun_starts[args[1]]
    IN IF DefPosPastEnd(m, def_pos) \/ GetScopeType(GenomeAt(m, def_pos).id) # "FUNCTION"
       THEN m
       ELSE Inst_Call_AlwaysPush_Then(
                UpdateScope(m, Arg(GenomeAt(m, def_pos), 1), "FUNCTION"), args, def_pos)

Inst_Call_Then(u, args, def_pos) ==
    IF u.ret = FALSE THEN u.hw
    ELSE [u.hw EXCEPT !.call_stack = Append(@, u.hw.inst_ptr + 1),
                      !.inst_ptr = def_pos + 1,
                      !.called = @ \cup {args[1]}]

Inst_Call(m, args) ==
    LET def_pos == m.fun_starts[args[1]]
    IN IF DefPosPastEnd(m, def_pos) \/ GetScopeType(GenomeAt(m, def_pos).id) # "FUNCTION"
       THEN m
       ELSE Inst_Call_Then(UpdateScope(m, Arg(GenomeAt(m, def_pos), 1), "FUNCTION"),
                        args, def_pos)

\* Faulty variant: the backup is put under the pending ones
Inst_ScopeReg_Front(m, args) ==
    [m EXCEPT !.reg_stack = <<RegBackup(CurScope(m), args[1], m.regs[args[1]])>> \o @,
              !.shadow = Append(@, [idx |-> Len(m.scope_stack), reg_id |-> args[1],
                                    value |-> m.regs[args[1]]])]

Inst_ScopeReg(m, args) ==
    [m EXCEPT !.reg_stack = Append(@, RegBackup(CurScope(m), args[1], m.regs[args[1]])),
              !.shadow = Append(@, [idx |-> Len(m.scope_stack), reg_id |-> args[1],
                                    value |-> m.regs[args[1]]])]

\* if (id >= traits.size()) traits.resize(id+1, 0.0); traits[id] = val;
\* trait id is traits[id + 1]
SetTrait(tr, id, val) ==
    [i \in 1 .. (IF id + 1 > Len(tr) THEN id + 1 ELSE Len(tr)) |->
        IF i = id + 1 THEN val ELSE IF i <= Len(tr) THEN tr[i] ELSE 0]

EndTurn(m) == [m EXCEPT !.traits = SetTrait(@, HALT_TRAIT, 1)]

Inst_EndTurn(m, args) == EndTurn(m)

\* inst_lib->ProcessInst(*this, inst): run the handler registered for inst.id
Handler(m, inst) ==
    CASE inst.id = "Inc"       -> Inst_Inc(m, inst.args)
      [] inst.id = "Dec"       -> Inst_Dec(m, inst.args)
      [] inst.id = "Not"       -> Inst_Not(m, inst.args)
      [] inst.id = "SetReg"    -> Inst_SetReg(m, inst.args)
      [] inst.id = "Add"       -> Inst_Add(m, inst.args)
      [] inst.id = "Sub"       -> Inst_Sub(m, inst.args)
      [] inst.id = "Mult"      -> Inst_Mult(m, inst.args)
      [] inst.id = "TestEqu"   -> Inst_TestEqu(m, inst.args)
      [] inst.id = "TestNEqu"  -> Inst_TestNEqu(m, inst.args)
      [] inst.id = "TestLess"  -> Inst_TestLess(m, inst.args)
      [] inst.id = "Input"     -> Inst_Input(m, inst.args)
      [] inst.id = "Output"    -> Inst_Output(m, inst.args)
      [] inst.id = "CopyVal"   -> Inst_CopyVal(m, inst.args)
      [] inst.id = "Div"       -> Inst_Div(m, inst.args)
      [] inst.id = "Mod"       -> Inst_Mod(m, inst.args)
      [] inst.id = "If"        -> Inst_If(m, inst.args)
      [] inst.id = "While"     -> Inst_While(m, inst.args)
      [] inst.id = "Countdown" -> Inst_Countdown(m, inst.args)
      [] inst.id = "Break"     -> Inst_Break(m, inst.args)
      [] inst.id = "Scope"     -> Inst_Scope(m, inst.args)
      [] inst.id = "Define"    -> Inst_Define(m, inst.args)
      [] inst.id = "Call"      -> Inst_Call(m, inst.args)
      [] inst.id = "ScopeReg"  -> Inst_ScopeReg(m, inst.args)
      [] inst.id = "EndTurn"   -> Inst_EndTurn(m, inst.args)

ProcessInst(m, inst) ==
    LET m0 == [m EXCEPT !.lvl = @ + 1,
                        !.execs[m.inst_ptr] = @ + 1,
                        !.log = Append(@, [k |-> "inst", pos |-> m.inst_ptr, lvl |-> m.lvl + 1,
                                           pre |-> Core(m)])]
        m1 == Handler(m0, inst)
    IN [m1 EXCEPT !.lvl = m.lvl]

\* Faulty variant: the pointer is not advanced after the handler returns
SingleProcess_NoAdvance(m) ==
    Dispatch(IF m.inst_ptr >= Len(m.genome) THEN ResetIP(m) ELSE m)

\* Faulty variant: the fetch and dispatch are made three times in one step
SingleProcess_Thrice(m) ==
    SingleProcess_NoAdvance(SingleProcess_NoAdvance(SingleProcess_NoAdvance(m)))

SingleProcess(m) ==
    LET m1 == IF m.inst_ptr >= Len(m.genome) THEN ResetIP(m) ELSE m
        m2 == Dispatch(m1)
    IN [m2 EXCEPT !.inst_ptr = @ + 1]

GetTrait(m, id) == m.traits[id + 1]

\* The loop of Process(num_inst) after some iterations: r.hw is the machine, r.done
\* the number of SingleProcess calls made, r.last the engine's state when the last
\* of them began; num_inst counts the iterations left.

\* Faulty variant: the halt trait is tested after the step, not before it
RECURSIVE ProcessLoop_TestAfter(_, _)
ProcessLoop_TestAfter(r, num_inst) ==
    IF num_inst = 0 THEN r
    ELSE ProcessLoop_TestAfter([hw |-> SingleProcess([r.hw EXCEPT !.log = <<>>]),
                                done |-> r.done + 1, last |-> Core(r.hw)],
                               IF GetTrait(SingleProcess(r.hw), HALT_TRAIT) = 1 THEN 0
                               ELSE num_inst - 1)

\* for (i = 0; i < num_inst; i++) { if (GetTrait(100) == 1) break; SingleProcess(); }
RECURSIVE ProcessLoop(_, _)
ProcessLoop(r, num_inst) ==
    IF num_inst = 0 \/ GetTrait(r.hw, HALT_TRAIT) = 1 THEN r
    ELSE ProcessLoop([hw |-> SingleProcess([r.hw EXCEPT !.log = <<>>]),
                      done |-> r.done + 1, last |-> Core(r.hw)],
                     num_inst - 1)

Process(m, last, num_inst) == ProcessLoop([hw |-> m, done |-> 0, last |-> last], num_inst)

\* PredictNextInst() const, on the engine's state c. call_stack.back() of an
\* empty vector is given as -1; it is never read (see SingleProcess's callers).
PredictNextInst(c) ==
    LET new_scope ==
            IF c.inst_ptr >= Len(genome) THEN 0
            ELSE LET inst_scope == InstScope(GetInst(c.inst_ptr))
                 IN IF inst_scope # 0 THEN inst_scope ELSE CPU_SIZE + 1
    IN IF new_scope > CPU_SIZE \/ new_scope > CurScope(c) THEN c.inst_ptr
       ELSE IF CurScopeType(c) = "LOOP" THEN Back(c.scope_stack).start_pos
       ELSE IF CurScopeType(c) = "FUNCTION"
       THEN LET next_pos == IF Len(c.call_stack) = 0 THEN -1 ELSE Back(c.call_stack)
            IN IF next_pos >= Len(genome) THEN 0 ELSE next_pos
       ELSE IF c.inst_ptr >= Len(genome) THEN 0
       ELSE c.inst_ptr

----------------------------------------------------------------------------
(* The genomes explored *)

\* scope-depth arguments
Args == 0 .. MaxArg

\* register arguments: register 0 is zero after a reset, register 1 is not
TestRegs == {0, 1}

\* function slots
Slots == {0, 1}

\* every genome of length 1..MaxLen over this alphabet is explored
Alphabet ==
    {Inst("Inc", r, 0, 0) : r \in TestRegs}
    \cup {Inst("If", r, d, 0) : r \in TestRegs, d \in Args}
    \cup {Inst("Countdown", r, d, 0) : r \in TestRegs, d \in Args}
    \cup {Inst("Break", d, 0, 0) : d \in Args}
    \cup {Inst("Scope", d, 0, 0) : d \in Args}
    \cup {Inst("Define", f, d, 0) : f \in Slots, d \in Args}
    \cup {Inst("Call", f, 0, 0) : f \in Slots}
    \cup {Inst("ScopeReg", r, 0, 0) : r \in TestRegs}

\* every sequence over S of length 1..n
SeqsUpTo(S, n) == UNION {[1 .. k -> S] : k \in 1 .. n}

ShortGenomes == SeqsUpTo(Alphabet, MaxLen)

\* every genome of length 1..MaxLen+1 made of Scope instructions only
ScopeOnlyGenomes == SeqsUpTo({Inst("Scope", d, 0, 0) : d \in Args}, MaxLen + 1)

\* every concatenation of one sequence from each set of F, in order
RECURSIVE Cat(_)
Cat(F) ==
    IF F = <<>> THEN {<<>>}
    ELSE {a \o b : a \in F[1], b \in Cat(Tail(F))}

\* the concatenation of the sequences of u, in order
RECURSIVE Cat2(_)
Cat2(u) == IF Len(u) = 0 THEN <<>> ELSE u[1] \o Cat2(Tail(u))

\* n copies of the sequence s
RECURSIVE Rep(_, _)
Rep(s, n) == IF n = 0 THEN <<>> ELSE s \o Rep(s, n - 1)

\* k Basic scopes opened one inside the other, at depth arguments base+1 .. base+k,
\* each by Scope or by an If whose test register (1) is nonzero after reset
NestKinds(k) == [1 .. k -> {"Scope", "If"}]

NestSeq(base, kinds) ==
    [i \in 1 .. Len(kinds) |->
        IF kinds[i] = "Scope" THEN Inst("Scope", base + i, 0, 0)
        ELSE Inst("If", 1, base + i, 0)]

NestsUpTo(base) ==
    UNION {{NestSeq(base, kinds) : kinds \in NestKinds(k)} : k \in 0 .. MaxNest}

\* Scope 0, Scope 1, ..., Scope k-1: one frame more at every step
Ladder(k) == [i \in 1 .. k |-> Inst("Scope", i - 1, 0, 0)]

LadderGenomes == {Ladder(k) : k \in 1 .. CPU_SIZE}

\* SetReg r v; Countdown r d; b times Inc 2; Scope d; post
CountdownGenome(r, v, d, b, post) ==
    <<Inst("SetReg", r, v, 0), Inst("Countdown", r, d, 0)>>
    \o Rep(<<Inst("Inc", 2, 0, 0)>>, b)
    \o <<Inst("Scope", d, 0, 0)>> \o post

CountdownPosts == {<<>>, <<Inst("Inc", 3, 0, 0)>>}

CountdownGenomes ==
    {CountdownGenome(r, v, d, b, post) :
        r \in 0 .. 1, v \in 0 .. MaxV, d \in 0 .. 1, b \in 1 .. 2, post \in CountdownPosts}

\* Call 0; Inc 2; Define 0 f; Inc 3; <nested scopes>; <body>; <closing instruction>
\* The Call is a no-op on the first pass (slot 0 undefined) and calls on the second.
FunctionBodies == {<<Inst("Inc", 2, 0, 0)>>,
                   <<Inst("ScopeReg", 2, 0, 0), Inst("Inc", 2, 0, 0)>>}

Closers(d) ==
    {<<Inst("Scope", c, 0, 0)>> : c \in 0 .. d}
    \cup {<<Inst("Break", c, 0, 0)>> : c \in 0 .. d}

FunctionGenomes ==
    UNION {Cat(<<{<<Inst("Call", 0, 0, 0), Inst("Inc", 2, 0, 0)>>},
                 {<<Inst("Define", 0, f, 0), Inst("Inc", 3, 0, 0)>>},
                 NestsUpTo(f), FunctionBodies, Closers(f)>>) : f \in 0 .. 1}

\* <loop head at depth d>; <nested scopes>; Inc 2; Scope c with c <= d
LoopHeads(d) == {<<Inst("While", 1, d, 0)>>, <<Inst("Countdown", 1, d, 0)>>}

LoopGenomes ==
    UNION {Cat(<<LoopHeads(d), NestsUpTo(d), {<<Inst("Inc", 2, 0, 0)>>},
                 {<<Inst("Scope", c, 0, 0)>> : c \in 0 .. d}>>) : d \in 0 .. 1}

\* register backups: [a backup in the root scope]; a scope at depth 1; j backups
\* with writes; [a nested scope with its own backup]; the exit (by resolution,
\* by Break, or by running off the end)
BackupUnits == {<<Inst("ScopeReg", 1, 0, 0), Inst("Inc", 1, 0, 0)>>,
                <<Inst("ScopeReg", 2, 0, 0), Inst("SetReg", 2, 0, 0)>>}

BackupBodies ==
    UNION {{Cat2(u) : u \in [1 .. j -> BackupUnits]} : j \in 1 .. MaxBk}

BackupGenomes ==
    Cat(<<{<<>>, <<Inst("ScopeReg", 1, 0, 0), Inst("Dec", 1, 0, 0)>>},
          {<<Inst("Scope", 0, 0, 0)>>, <<Inst("While", 3, 0, 0)>>},
          BackupBodies,
          {<<>>,
           <<Inst("Scope", 1, 0, 0), Inst("ScopeReg", 1, 0, 0), Inst("Dec", 1, 0, 0)>>},
          {<<>>, <<Inst("Scope", 0, 0, 0)>>, <<Inst("Break", 0, 0, 0)>>,
           <<Inst("Break", 1, 0, 0)>>}>>)

\* a loop opened inside a Basic scope of an outer loop, and its closing instruction
NestedLoopGenomes ==
    Cat(<<LoopHeads(0), {<<Inst("Scope", 1, 0, 0)>>}, LoopHeads(0) \cup LoopHeads(1),
          {<<>>, <<Inst("Inc", 2, 0, 0)>>},
          {<<Inst("Scope", c, 0, 0)>> : c \in 0 .. 1}>>)

\* <head>; Define 0 d; Inc 2; Scope c; Call 0: the Call is the last instruction
TailCallHeads ==
    {<<>>, <<Inst("Scope", 0, 0, 0)>>, <<Inst("Call", 0, 0, 0)>>, <<Inst("Inc", 3, 0, 0)>>}

TailCallGenomes ==
    UNION {Cat(<<TailCallHeads, {<<Inst("Define", 0, d, 0), Inst("Inc", 2, 0, 0)>>},
                 {<<Inst("Scope", c, 0, 0)>> : c \in 0 .. d},
                 {<<Inst("Call", 0, 0, 0)>>}>>) : d \in 0 .. 2}

\* Define 1 d; Define 0 e; Inc 2; Scope 0; Call s: two functions, one called
TwoFunctionGenomes ==
    {<<Inst("Define", 1, d, 0), Inst("Define", 0, e, 0), Inst("Inc", 2, 0, 0),
       Inst("Scope", 0, 0, 0), Inst("Call", s, 0, 0)>> :
        d \in 0 .. 1, e \in 0 .. 1, s \in 0 .. 1}

\* divisions and modulos by register 0 (zero after reset) and by register 1 (one after reset),
\* the end of the turn, and a function defined before them
TraitUnits ==
    {<<Inst("Div", 2, 0, 3)>>, <<Inst("Div", 2, 1, 3)>>, <<Inst("EndTurn", 0, 0, 0)>>,
     <<Inst("Mod", 2, 0, 3)>>, <<Inst("Mod", 2, 1, 3)>>,
     <<Inst("Define", 0, 0, 0)>>, <<Inst("Scope", 0, 0, 0), Inst("ScopeReg", 1, 0, 0)>>}

TraitGenomes ==
    {Cat2(u) : u \in [1 .. 2 -> TraitUnits]}
    \cup {<<Inst("Div", 2, 0, 3), Inst("EndTurn", 0, 0, 0), Inst("Define", 0, 0, 0),
             Inst("Scope", 0, 0, 0), Inst("ScopeReg", 1, 0, 0)>>}

\* the instructions without a scope kind, other than Break, Call and ScopeReg:
\* the register arithmetic and tests, the copies, the inputs and outputs, Div
\* and Mod by zero and by one, EndTurn
PlainInsts ==
    {Inst("Inc", 2, 0, 0), Inst("Dec", 2, 0, 0), Inst("Not", 0, 0, 0), Inst("Not", 1, 0, 0),
     Inst("SetReg", 2, 5, 0), Inst("Add", 1, 2, 3), Inst("Sub", 1, 2, 3),
     Inst("Mult", 2, 3, 4), Inst("Div", 2, 0, 3), Inst("Div", 2, 1, 3),
     Inst("Mod", 2, 0, 3), Inst("Mod", 2, 1, 3), Inst("TestEqu", 1, 1, 3),
     Inst("TestNEqu", 1, 1, 3), Inst("TestLess", 1, 2, 3), Inst("CopyVal", 1, 2, 0),
     Inst("Input", 0, 2, 0), Inst("Input", 1, 2, 0), Inst("Output", 2, 1, 0),
     Inst("EndTurn", 0, 0, 0)}

\* one of them at Root, inside a scope with a register backup pending, and in
\* the body of a function that is called (the Call resumes two past the Define)
PlainFrames ==
    {<<<<>>, <<Inst("Output", 3, 0, 0)>>>>,
     <<<<Inst("Scope", 0, 0, 0), Inst("ScopeReg", 3, 0, 0)>>, <<Inst("Output", 3, 0, 0)>>>>,
     <<<<Inst("Define", 0, 0, 0), Inst("Inc", 5, 0, 0)>>,
       <<Inst("Scope", 0, 0, 0), Inst("Call", 0, 0, 0)>>>>}

PlainGenomes == {f[1] \o <<p>> \o f[2] : f \in PlainFrames, p \in PlainInsts}

\* Calls made from inside a frame that is not shallower than the function:
\* Call 0; Define 0 d; Inc 2; Call 0 (in the second pass the function calls
\* itself) and Define 0 0; Inc 2; While 1 c; Call 0 (the function is called
\* from a loop of its depth or deeper)
InsideCallGenomes ==
    {<<Inst("Call", 0, 0, 0), Inst("Define", 0, d, 0), Inst("Inc", 2, 0, 0),
       Inst("Call", 0, 0, 0)>> : d \in 0 .. 1}
    \cup {<<Inst("Define", 0, 0, 0), Inst("Inc", 2, 0, 0), Inst("While", 1, c, 0),
             Inst("Call", 0, 0, 0)>> : c \in 0 .. 1}

Genomes ==
    PlainGenomes \cup ShortGenomes \cup ScopeOnlyGenomes \cup LadderGenomes \cup CountdownGenomes \cup FunctionGenomes
    \cup LoopGenomes \cup BackupGenomes \cup NestedLoopGenomes \cup TailCallGenomes
    \cup TwoFunctionGenomes \cup TraitGenomes \cup InsideCallGenomes

StepBudget(g) == Len(g) + MaxSteps

----------------------------------------------------------------------------
(* Construction, loading, stepping, resetting *)

RootFrame == ScopeInfo(0, "ROOT", 0)

\* Faulty variant: the function table is not cleared
ResetHardware_KeepFunStarts(m) ==
    [m EXCEPT !.regs = [i \in 0 .. CPU_SIZE - 1 |-> i],
              !.inputs = <<>>,
              !.outputs = <<>>,
              !.inst_ptr = 0,
              !.scope_stack = SubSeq(@, 1, 1),
              !.reg_stack = <<>>,
              !.call_stack = <<>>,
              !.errors = 0]

\* Faulty variant: the traits are cleared as in Reset
ResetHardware_ClearTraits(m) ==
    [m EXCEPT !.regs = [i \in 0 .. CPU_SIZE - 1 |-> i],
              !.inputs = <<>>,
              !.outputs = <<>>,
              !.fun_starts = [i \in 0 .. CPU_SIZE - 1 |-> -1],
              !.inst_ptr = 0,
              !.scope_stack = SubSeq(@, 1, 1),
              !.reg_stack = <<>>,
              !.call_stack = <<>>,
              !.errors = 0,
              !.traits = SetTrait(<<>>, HALT_TRAIT, 0)]

\* ResetHardware(): registers, function table, pointer, stacks, error counter.
\* scope_stack.resize(1) keeps the bottom frame. (mem and board are not part of
\* the model.)
ResetHardware(m) ==
    [m EXCEPT !.regs = [i \in 0 .. CPU_SIZE - 1 |-> i],
              !.inputs = <<>>,
              !.outputs = <<>>,
              !.fun_starts = [i \in 0 .. CPU_SIZE - 1 |-> -1],
              !.inst_ptr = 0,
              !.scope_stack = SubSeq(@, 1, 1),
              !.reg_stack = <<>>,
              !.call_stack = <<>>,
              !.errors = 0]

\* Reset(): genome.resize(0); traits.resize(0); SetTrait(100, 0); ResetHardware()
Reset(m) ==
    ResetHardware([m EXCEPT !.genome = <<>>, !.traits = SetTrait(<<>>, HALT_TRAIT, 0)])

\* the history starts again after a reset; `mark` names the reset
ClearHistory(m, g, mark) ==
    [m EXCEPT !.log = <<[k |-> mark]>>, !.shadow = <<>>,
              !.execs = [p \in 0 .. Len(g) - 1 |-> 0],
              !.wraps = 0, !.fault = {}, !.called = {}]

\* the value of proc when the last operation was not a call of Process
NoProcess == [k |-> "none"]

\* the opcodes of the model
InstIds ==
    {"Inc", "Dec", "Not", "SetReg", "Add", "Sub", "Mult", "Div", "Mod", "TestEqu",
     "TestNEqu", "TestLess", "If", "While", "Countdown", "Break", "Scope", "Define",
     "Call", "Input", "Output", "CopyVal", "ScopeReg", "EndTurn"}

\* DefaultInstLib(): what the library holds for each opcode once it is populated
DefaultInstLib ==
    [id \in InstIds |-> [scope_type |-> GetScopeType(id), scope_arg |-> GetScopeArg(id)]]

\* no machines besides the one of the variables above
NoFleet == [inst_lib |-> DefaultInstLib, vm |-> <<>>]

\* The threads that construct a machine at the same time, and the number of
\* AddInst calls of DefaultInstLib() that are followed (the first of the table)
NumThreads == 2
NumInsts == 3

\* the opcodes in the order DefaultInstLib() registers them
AddInstOrder == <<"Inc", "Dec", "Not", "SetReg", "Add", "Sub", "Mult", "Div", "Mod">>

LibTable == SubSeq(AddInstOrder, 1, NumInsts)

\* the storage of the library's vector: at most every thread adds every entry
LibCap == NumThreads * NumInsts

\* the library once DefaultInstLib() has returned for the first time, no
\* thread being inside it
LibReady ==
    [constructed |-> TRUE,
     slots |-> [i \in 1 .. LibCap |-> IF i <= NumInsts THEN LibTable[i] ELSE "none"],
     size |-> NumInsts, args |-> TRUE,
     calls |-> [i \in 1 .. NumInsts |-> 1], th |-> <<>>]

\* The constructor: the root frame is pushed, then Reset()
ConstructorState ==
    /\ genome = <<>>
    /\ regs = [i \in 0 .. CPU_SIZE - 1 |-> i]
    /\ inputs = <<>>
    /\ outputs = <<>>
    /\ fun_starts = [i \in 0 .. CPU_SIZE - 1 |-> -1]
    /\ inst_ptr = 0
    /\ scope_stack = <<RootFrame>>
    /\ reg_stack = <<>>
    /\ call_stack = <<>>
    /\ errors = 0
    /\ traits = SetTrait(<<>>, HALT_TRAIT, 0)
    /\ log = <<>>
    /\ prev = [regs |-> regs, fun_starts |-> fun_starts, inst_ptr |-> 0,
               scope_stack |-> <<RootFrame>>, reg_stack |-> <<>>,
               call_stack |-> <<>>, errors |-> 0]
    /\ shadow = <<>>
    /\ execs = <<>>
    /\ wraps = 0
    /\ fault = {}
    /\ called = {}
    /\ steps = 0
    /\ proc = NoProcess

\* one machine, constructed
Init == ConstructorState /\ fleet = NoFleet /\ lib = LibReady

Install(m) ==
    /\ genome' = m.genome
    /\ regs' = m.regs
    /\ inputs' = m.inputs
    /\ outputs' = m.outputs
    /\ fun_starts' = m.fun_starts
    /\ inst_ptr' = m.inst_ptr
    /\ scope_stack' = m.scope_stack
    /\ reg_stack' = m.reg_stack
    /\ call_stack' = m.call_stack
    /\ errors' = m.errors
    /\ traits' = m.traits
    /\ log' = m.log
    /\ shadow' = m.shadow
    /\ execs' = m.execs
    /\ wraps' = m.wraps
    /\ fault' = m.fault
    /\ called' = m.called
    /\ fleet' = fleet
    /\ lib' = lib

\* PushInst(...) for every instruction of a genome, onto the empty genome
Load ==
    /\ Len(genome) = 0
    /\ genome' \in Genomes
    /\ execs' = [p \in 0 .. Len(genome') - 1 |-> 0]
    /\ log' = <<>>
    /\ prev' = Core(HW)
    /\ proc' = NoProcess
    /\ UNCHANGED <<regs, inputs, outputs, fun_starts, inst_ptr, scope_stack, reg_stack,
                   call_stack, errors, traits, shadow, wraps, fault, called, steps, fleet, lib>>

\* One call of SingleProcess(); genome[inst_ptr] needs a non-empty genome
Step ==
    /\ Len(genome) > 0
    /\ steps < StepBudget(genome)
    /\ Install(SingleProcess([HW EXCEPT !.log = <<>>]))
    /\ prev' = Core(HW)
    /\ steps' = steps + 1
    /\ proc' = NoProcess

\* the state a call of Process leaves: r is the result of Process(HW, prev, num_inst)
InstallProcess(r, num_inst) ==
    /\ Install(r.hw)
    /\ prev' = r.last
    /\ steps' = steps + r.done
    /\ proc' = [k |-> "Process", num_inst |-> num_inst, done |-> r.done,
                entry |-> [HW EXCEPT !.log = <<>>]]

\* One call of Process(num_inst), on the genomes written for the halt trait
DoProcess ==
    /\ genome \in TraitGenomes
    /\ \E num_inst \in 0 .. MaxProc :
           /\ steps + num_inst <= StepBudget(genome)
           /\ InstallProcess(Process(HW, prev, num_inst), num_inst)

\* ResetHardware(): the genome and the traits are kept
DoResetHardware ==
    /\ steps > 0
    /\ Install(ClearHistory(ResetHardware(HW), genome, "ResetHardware()"))
    /\ prev' = Core(HW)
    /\ steps' = 0
    /\ proc' = NoProcess

\* Reset(): the full reset, genome.resize(0) included
DoReset ==
    /\ Len(genome) > 0
    /\ Install(ClearHistory(Reset(HW), <<>>, "Reset()"))
    /\ prev' = Core(Reset(HW))
    /\ steps' = 0
    /\ proc' = NoProcess

\* the positions a stale slot is pointed at: the first position if it holds no
\* Define, and the genome length (the first address outside the genome)
StalePositions(g) ==
    {p \in {0, Len(g)} : p = Len(g) \/ GetScopeType(g[p + 1].id) # "FUNCTION"}

\* the slots the genome g calls
CalledSlots(g) == {Arg(g[i], 0) : i \in {j \in DOMAIN g : g[j].id = "Call"}}

\* SetFunStart(id, value) by the owner of the machine, on a fresh function table:
\* a slot the genome calls is pointed at a position that holds no Define
DoSetFunStart ==
    /\ steps = 0
    /\ \A i \in 0 .. CPU_SIZE - 1 : fun_starts[i] = -1
    /\ \E id \in CalledSlots(genome), value \in StalePositions(genome) :
           fun_starts' = [fun_starts EXCEPT ![id] = value]
    /\ log' = <<>>
    /\ prev' = Core(HW)
    /\ proc' = NoProcess
    /\ UNCHANGED <<genome, regs, inputs, outputs, inst_ptr, scope_stack, reg_stack,
                   call_stack, errors, traits, shadow, execs, wraps, fault, called, steps, fleet, lib>>

\* the input ids and the value the owner of the machine sets
InputIds == {0, 1}

InputValue == 7  \* the value SetInput stores (any value other than the default 0)

\* SetInput(input_id, value) by the owner of the machine, before a run of a
\* genome that reads inputs
DoSetInput ==
    /\ steps = 0
    /\ \E i \in DOMAIN genome : genome[i].id = "Input"
    /\ DOMAIN inputs = {}
    /\ \E input_id \in InputIds : inputs' = Put(inputs, input_id, InputValue)
    /\ log' = <<>>
    /\ prev' = Core(HW)
    /\ proc' = NoProcess
    /\ UNCHANGED <<genome, regs, outputs, fun_starts, inst_ptr, scope_stack, reg_stack,
                   call_stack, errors, traits, shadow, execs, wraps, fault, called, steps, fleet, lib>>

Next ==
    Load \/ Step \/ DoProcess \/ DoResetHardware \/ DoReset \/ DoSetFunStart \/ DoSetInput

Spec == Init /\ [][Next]_vars

----------------------------------------------------------------------------
(* Reading the history of the last step *)

InstEvents == SelectSeq(log, LAMBDA e : e.k = "inst")

ExitEvents == SelectSeq(log, LAMBDA e : e.k = "exit")

PushEvents == SelectSeq(log, LAMBDA e : e.k = "push")

\* the last step dispatched the instruction at prev.inst_ptr (no wrap-around first)
SteppedInside == steps > 0 /\ prev.inst_ptr < Len(genome)

\* the instruction the last step dispatched first
FirstInst == GetInst(InstEvents[1].pos)

IsScopeInst(inst) == GetScopeType(inst.id) # "NONE"

\* number of frames at the top of ss that are Basic
RECURSIVE BasicRun(_)
BasicRun(ss) ==
    IF Len(ss) > 0 /\ Back(ss).type = "BASIC" THEN 1 + BasicRun(PopBack(ss)) ELSE 0

\* index of the first frame below the Basic frames at the top of ss
Uncovered(ss) == Len(ss) - BasicRun(ss)

NumFunctionFrames(ss) == Cardinality({i \in DOMAIN ss : ss[i].type = "FUNCTION"})

----------------------------------------------------------------------------
(* C1: in every reachable state the scope stack holds at least one frame, its
   bottom frame is the Root frame with depth 0, and ExitScope has never been
   invoked with only the Root frame left (its assertion size() > 1 has not
   failed). *)
InvC1 ==
    /\ Len(scope_stack) >= 1
    /\ scope_stack[1] = RootFrame
    /\ "ExitScope: scope_stack.size() > 1" \notin fault

\* a Break was executed while only the Root frame remained, after a wrap-around
WitC1 ==
    /\ steps > 0 /\ wraps >= 1
    /\ Len(prev.scope_stack) = 1
    /\ FirstInst.id = "Break"
    /\ Len(scope_stack) = 1

(* C2: in every reachable state the scope stack size, Root included, is at
   most CPU_SIZE, and the assertion size() <= CPU_SIZE of ExitScope has not
   failed. *)
InvC2 ==
    /\ Len(scope_stack) <= CPU_SIZE
    /\ "ExitScope: scope_stack.size() <= CPU_SIZE" \notin fault

(* C3: when a scope instruction of internal depth <= the depth of the running
   function's frame is executed, with only Basic frames above that Function
   frame and a return address inside the genome, then in that step the
   instruction at the return address is dispatched next, with the Function
   frame (and every frame above it) and its call-stack entry gone. *)
InvC3 ==
    LET ss == prev.scope_stack
        j == Uncovered(ss)
    IN (/\ SteppedInside
        /\ j >= 1 /\ ss[j].type = "FUNCTION"
        /\ Len(prev.call_stack) > 0 /\ Back(prev.call_stack) < Len(genome)
        /\ IsScopeInst(FirstInst) /\ InstScope(FirstInst) <= ss[j].scope)
       => /\ Len(InstEvents) >= 2
          /\ InstEvents[2].pos = Back(prev.call_stack)
          /\ InstEvents[2].pre.scope_stack = SubSeq(ss, 1, j - 1)
          /\ InstEvents[2].pre.call_stack = PopBack(prev.call_stack)

CountdownDone == execs[1] >= 1 /\ \A i \in DOMAIN scope_stack : scope_stack[i].type # "LOOP"

(* C4: in a genome SetReg r v; Countdown r d; <b times Inc 2>; Scope d; ...
   the loop body is never executed more than v times, and once the loop is
   finished (the Countdown has run and no Loop frame is left) every body
   instruction has run exactly v times, register r is 0, and the closing
   instruction Scope d is the next one executed. Stated for the first pass
   over the genome. *)
InvC4 ==
    \A r \in 0 .. 1, v \in 0 .. MaxV, d \in 0 .. 1, b \in 1 .. 2, post \in CountdownPosts :
        (genome = CountdownGenome(r, v, d, b, post) /\ wraps = 0)
        => /\ \A i \in 2 .. b + 1 : execs[i] <= v
           /\ CountdownDone
              => /\ \A i \in 2 .. b + 1 : execs[i] = v
                 /\ regs[r] = 0
                 /\ execs[0] = 1 /\ execs[1] = v + 1
                 /\ execs[b + 2] \in {v, v + 1}
                 /\ execs[b + 2] = v => inst_ptr = b + 2

\* a countdown from MaxV has just finished
WitC4 ==
    /\ \E r \in 0 .. 1, d \in 0 .. 1, b \in 1 .. 2, post \in CountdownPosts :
           genome = CountdownGenome(r, MaxV, d, b, post)
    /\ wraps = 0
    /\ CountdownDone
    /\ execs[2] = MaxV
    /\ inst_ptr + 1 <= Len(genome) /\ GetInst(inst_ptr).id = "Scope"

(* C5: when a scope instruction of internal depth d+1 is executed while the
   current frame is a Basic frame of depth >= d+1, every frame pushed by that
   instruction's scope update has depth exactly d+1, and if the frame below
   the Basic frames is a Loop or Function frame of depth >= d+1 it is resolved
   in the same step (its loop head or return address is re-dispatched). *)
InvC5 ==
    LET ss == prev.scope_stack
        j == Uncovered(ss)
    IN (/\ SteppedInside
        /\ IsScopeInst(FirstInst)
        /\ Back(ss).type = "BASIC" /\ Back(ss).scope >= InstScope(FirstInst))
       => /\ \A i \in DOMAIN PushEvents :
                 PushEvents[i].lvl = 1 => PushEvents[i].frame.scope = InstScope(FirstInst)
          /\ (ss[j].type \in {"LOOP", "FUNCTION"} /\ ss[j].scope >= InstScope(FirstInst))
             => Len(InstEvents) >= 2

(* C6: when the instruction closing a loop's depth is executed while Basic
   frames opened in the loop body are still above the Loop frame, then in that
   step the Basic frames and the Loop frame are exited and the loop's guard
   instruction at the frame's start position is re-dispatched. *)
InvC6 ==
    LET ss == prev.scope_stack
        j == Uncovered(ss)
    IN (/\ SteppedInside
        /\ j >= 1 /\ j < Len(ss) /\ ss[j].type = "LOOP"
        /\ IsScopeInst(FirstInst) /\ InstScope(FirstInst) = ss[j].scope)
       => /\ Len(InstEvents) >= 2
          /\ InstEvents[2].pos = ss[j].start_pos
          /\ InstEvents[2].pre.scope_stack = SubSeq(ss, 1, j - 1)

(* C7: whenever a frame is exited, every register for which a backup was
   pushed while that frame was the current one holds, right after the exit,
   the value captured by the first such backup. *)
InvC7 ==
    \A n \in DOMAIN ExitEvents :
        LET e == ExitEvents[n]
        IN \A i \in DOMAIN e.owed :
               (\A h \in 1 .. i - 1 : e.owed[h].reg_id # e.owed[i].reg_id)
               => e.post.regs[e.owed[i].reg_id] = e.owed[i].value

\* a frame with a backup was exited after the register had been changed inside it
WitC7 ==
    \E n \in DOMAIN ExitEvents :
        LET e == ExitEvents[n]
        IN /\ Len(e.owed) >= 1
           /\ e.pre.regs[e.owed[1].reg_id] # e.owed[1].value
           /\ e.post.regs[e.owed[1].reg_id] = e.owed[1].value

OfReg(bs, r) == SelectSeq(bs, LAMBDA b : b.reg_id = r)

Values(bs) == [i \in DOMAIN bs |-> bs[i].value]

Reverse(s) == [i \in DOMAIN s |-> s[Len(s) + 1 - i]]

(* C8: when a frame exits in which several backups of one register were
   pushed, these are restored last-pushed first, the register ends with the
   value of the oldest of them, and no backup owned by that scope remains. *)
InvC8 ==
    \A n \in DOMAIN ExitEvents :
        LET e == ExitEvents[n]
            d == Back(e.pre.scope_stack).scope
        IN \A r \in 0 .. CPU_SIZE - 1 :
               Len(OfReg(e.owed, r)) >= 2
               => /\ Values(OfReg(e.restored, r)) = Reverse(Values(OfReg(e.owed, r)))
                  /\ e.post.regs[r] = OfReg(e.owed, r)[1].value
                  /\ \A i \in DOMAIN e.post.reg_stack : e.post.reg_stack[i].scope # d

\* a frame was exited with two backups of one register holding different values
WitC8 ==
    \E n \in DOMAIN ExitEvents :
        LET e == ExitEvents[n]
        IN \E r \in 0 .. CPU_SIZE - 1 :
               /\ Len(OfReg(e.owed, r)) >= 2
               /\ OfReg(e.owed, r)[1].value # OfReg(e.owed, r)[2].value

(* C9: an exit pops exactly one frame and exactly the backups at the top of
   the backup stack owned by the exiting frame's depth: what stays is a prefix
   of the old backup stack whose top, if any, is owned by another scope; a
   register with no popped backup keeps its value, one with popped backups
   gets the value of the deepest of them; nothing else changes. *)
InvC9 ==
    \A n \in DOMAIN ExitEvents :
        LET e == ExitEvents[n]
            d == Back(e.pre.scope_stack).scope
            old == e.pre.reg_stack
            new == e.post.reg_stack
            popped == SubSeq(old, Len(new) + 1, Len(old))
        IN /\ Len(new) <= Len(old)
           /\ new = SubSeq(old, 1, Len(new))
           /\ \A i \in DOMAIN popped : popped[i].scope = d
           /\ Len(new) > 0 => Back(new).scope # d
           /\ \A r \in 0 .. CPU_SIZE - 1 :
                  e.post.regs[r] = IF Len(OfReg(popped, r)) = 0 THEN e.pre.regs[r]
                                   ELSE OfReg(popped, r)[1].value
           /\ e.post.scope_stack = PopBack(e.pre.scope_stack)
           /\ e.post.call_stack = e.pre.call_stack
           /\ e.post.inst_ptr = e.pre.inst_ptr
           /\ e.post.fun_starts = e.pre.fun_starts
           /\ e.post.errors = e.pre.errors

\* an exit restored a register from its own backup while a backup of the same
\* register owned by an ancestor frame, holding another value, stayed pending
WitC9 ==
    \E n \in DOMAIN ExitEvents :
        LET e == ExitEvents[n]
            old == e.pre.reg_stack
            new == e.post.reg_stack
        IN /\ Len(new) >= 1 /\ Len(old) > Len(new)
           /\ \E i \in DOMAIN new :
                  /\ new[i].reg_id = old[Len(new) + 1].reg_id
                  /\ new[i].value # old[Len(new) + 1].value

(* C10: at every step boundary the call-stack size equals the number of
   Function-kind frames on the scope stack. *)
InvC10 == Len(call_stack) = NumFunctionFrames(scope_stack)

----------------------------------------------------------------------------
(* More readers of the history of the last step *)

UpdateEvents == SelectSeq(log, LAMBDA e : e.k = "update")

BypassEvents == SelectSeq(log, LAMBDA e : e.k = "bypass")

\* the last step was a SingleProcess call (not a reset or a load)
Stepped == steps > 0

LastInstEvent == InstEvents[Len(InstEvents)]

\* the first position after `from` whose instruction opens a scope of internal
\* depth 1..scope; the genome length if there is none
FirstStop(from, scope) ==
    LET c == {p \in from + 1 .. Len(genome) - 1 :
                  InstScope(GetInst(p)) # 0 /\ InstScope(GetInst(p)) <= scope}
    IN IF c = {} THEN Len(genome) ELSE CHOOSE p \in c : \A q \in c : p <= q

\* the value a wrap-around reset leaves in register r: that of the oldest pending backup
AfterRestoreAll(c, r) ==
    IF Len(OfReg(c.reg_stack, r)) = 0 THEN c.regs[r] ELSE OfReg(c.reg_stack, r)[1].value

----------------------------------------------------------------------------
(* C11: in every state with a non-empty genome, PredictNextInst returns the
   position of the instruction whose handler the next SingleProcess call ends
   up running (the last one dispatched in that step, after any wrap-around
   reset, loop-back or function return). PredictNextInst is a function of the
   state and changes none of it. *)
InvC11 == Stepped => PredictNextInst(prev) = LastInstEvent.pos

(* C12: a Break executed inside a frame other than Root exits the innermost
   frame first, whatever its argument, also when the argument's internal depth
   is greater than the depth of the current frame. *)
InvC12 ==
    (SteppedInside /\ FirstInst.id = "Break" /\ Len(prev.scope_stack) > 1)
    => /\ Len(ExitEvents) >= 1
       /\ ExitEvents[1].pre.scope_stack = prev.scope_stack

(* C13: a bypass that has exited a frame leaves the pointer one position
   before the first later instruction that opens a scope of internal depth
   1..target_depth+1, or on the last position of the genome if there is none;
   nothing is dispatched in the rest of the step, so the step ends with the
   pointer on that instruction (or at the genome length, and the next step
   wraps around). *)
InvC13 ==
    \A i \in DOMAIN log :
        log[i].k = "bypass"
        => /\ log[i].to = FirstStop(log[i].from, log[i].scope) - 1
           /\ \A j \in i + 1 .. Len(log) : log[j].k # "inst"
           /\ inst_ptr = FirstStop(log[i].from, log[i].scope)

\* a bypass skipped at least one instruction and stopped before the end of the genome
WitC13 ==
    /\ Stepped
    /\ \E i \in DOMAIN BypassEvents :
           /\ BypassEvents[i].to > BypassEvents[i].from
           /\ BypassEvents[i].to + 1 < Len(genome)
           /\ inst_ptr = BypassEvents[i].to + 1

(* C14: when If(test_reg, depth) is executed with a depth deeper than the
   current frame: if reg[test_reg] is nonzero a Basic frame is pushed and the
   pointer is on the following instruction; if it is zero the scope stack and
   the registers are the same after the step as before it, no instruction of
   the scope body is dispatched and the pointer is past the body. *)
InvC14 ==
    (SteppedInside /\ FirstInst.id = "If" /\ InstScope(FirstInst) > CurScope(prev))
    => /\ Len(InstEvents) = 1
       /\ regs = prev.regs
       /\ IF prev.regs[Arg(FirstInst, 0)] # 0
          THEN /\ scope_stack = Append(prev.scope_stack,
                                       ScopeInfo(InstScope(FirstInst), "BASIC", prev.inst_ptr))
               /\ inst_ptr = prev.inst_ptr + 1
          ELSE /\ scope_stack = prev.scope_stack
               /\ inst_ptr = FirstStop(prev.inst_ptr, InstScope(FirstInst))

\* an If with a zero test register skipped a body of at least one instruction
WitC14 ==
    /\ SteppedInside /\ FirstInst.id = "If" /\ InstScope(FirstInst) > CurScope(prev)
    /\ prev.regs[Arg(FirstInst, 0)] = 0
    /\ inst_ptr > prev.inst_ptr + 1
    /\ inst_ptr < Len(genome)

(* C15: whenever SingleProcess is called with the pointer at or past the
   genome length, the instruction dispatched in that step is the one at
   position 0, and when it is dispatched the scope stack holds the Root frame
   only, the call stack and the backup stack are empty, and every register
   that had pending backups holds the value of its oldest pending backup. *)
InvC15 ==
    (Stepped /\ prev.inst_ptr >= Len(genome))
    => /\ log[1].k = "reset"
       /\ InstEvents[1].pos = 0
       /\ InstEvents[1].pre.scope_stack = <<RootFrame>>
       /\ InstEvents[1].pre.call_stack = <<>>
       /\ InstEvents[1].pre.reg_stack = <<>>
       /\ \A r \in 0 .. CPU_SIZE - 1 :
              InstEvents[1].pre.regs[r] = AfterRestoreAll(prev, r)

\* a wrap-around with a scope open and a backup owned by the Root frame pending,
\* the register changed since
WitC15 ==
    /\ Stepped /\ prev.inst_ptr >= Len(genome)
    /\ Len(prev.scope_stack) > 1
    /\ \E i \in DOMAIN prev.reg_stack :
           /\ prev.reg_stack[i].scope = 0
           /\ prev.reg_stack[i].value # prev.regs[prev.reg_stack[i].reg_id]

\* the state every reset leaves the hardware in
HardwareFresh ==
    /\ regs' = [i \in 0 .. CPU_SIZE - 1 |-> i]
    /\ inst_ptr' = 0
    /\ scope_stack' = <<RootFrame>>
    /\ call_stack' = <<>>
    /\ reg_stack' = <<>>
    /\ \A i \in 0 .. CPU_SIZE - 1 : fun_starts'[i] = -1
    /\ errors' = 0

(* C16: a hardware reset, from any reachable state, yields reg[i] = i for every
   register, pointer 0, a scope stack holding only the Root frame (depth 0),
   empty call and backup stacks, every function-table slot undefined and error
   counter 0, and leaves the genome and the traits unchanged; a full reset
   yields the same hardware state, the empty genome and halt trait 0. *)
InvC16 ==
    [][/\ (Len(log') = 1 /\ log'[1].k = "ResetHardware()")
          => (HardwareFresh /\ genome' = genome /\ traits' = traits)
       /\ (Len(log') = 1 /\ log'[1].k = "Reset()")
          => (HardwareFresh /\ genome' = <<>> /\ traits'[HALT_TRAIT + 1] = 0)]_vars

\* a hardware reset taken with a scope open, a function defined, an error
\* counted and the halt trait set
WitC16 ==
    /\ Len(log) = 1 /\ log[1].k = "ResetHardware()"
    /\ Len(prev.scope_stack) > 1
    /\ prev.errors > 0
    /\ \E i \in 0 .. CPU_SIZE - 1 : prev.fun_starts[i] # -1
    /\ traits[HALT_TRAIT + 1] = 1
    /\ Len(genome) > 0

(* C17: every scope update called with depth d while d+1 is strictly greater
   than the current frame's depth pushes exactly one frame {depth d+1, the kind
   passed, start position = the pointer}, returns 'entered', and changes
   nothing else: pointer, registers, function table, call stack, backup stack
   and error counter are as before the call. *)
InvC17 ==
    \A i \in DOMAIN UpdateEvents :
        LET e == UpdateEvents[i]
        IN e.arg + 1 > Back(e.pre.scope_stack).scope
           => /\ e.ret = TRUE
              /\ e.post = [e.pre EXCEPT !.scope_stack =
                               Append(@, ScopeInfo(e.arg + 1, e.type, e.pre.inst_ptr))]

\* a Function frame was entered from inside another frame, at a position other than 0
WitC17 ==
    \E i \in DOMAIN UpdateEvents :
        LET e == UpdateEvents[i]
        IN /\ e.arg + 1 > Back(e.pre.scope_stack).scope
           /\ e.ret = TRUE
           /\ e.type = "FUNCTION"
           /\ Len(e.pre.scope_stack) > 1
           /\ e.pre.inst_ptr > 0

\* the last step began by closing a loop: a scope instruction of internal depth
\* <= the depth of the Loop frame on top
ClosedLoop ==
    /\ SteppedInside
    /\ IsScopeInst(FirstInst)
    /\ Back(prev.scope_stack).type = "LOOP"
    /\ InstScope(FirstInst) <= Back(prev.scope_stack).scope

(* C18: when a scope instruction of internal depth <= the current frame's depth
   is executed while the current frame is a Loop frame, then in that step the
   Loop frame is exited, the guard at the frame's start position is dispatched
   with the frame gone, the closing instruction does nothing after that
   (the step ends in the state the guard's dispatch left, the pointer advanced
   by one), and if the guard register is nonzero the step ends with a Loop
   frame of the same start position on top and the pointer at start + 1. *)
InvC18 ==
    ClosedLoop
    => LET top == Back(prev.scope_stack)
           u == UpdateEvents[Len(UpdateEvents)]
       IN /\ Len(ExitEvents) >= 1
          /\ ExitEvents[1].pre.scope_stack = prev.scope_stack
          /\ Len(InstEvents) >= 2
          /\ InstEvents[2].pos = top.start_pos
          /\ InstEvents[2].pre.scope_stack = PopBack(prev.scope_stack)
          /\ u.lvl = 1 /\ u.ret = FALSE
          /\ Core(HW) = [u.post EXCEPT !.inst_ptr = @ + 1]
          /\ InstEvents[2].pre.regs[Arg(GetInst(top.start_pos), 0)] # 0
             => /\ Back(scope_stack).type = "LOOP"
                /\ Back(scope_stack).start_pos = top.start_pos
                /\ inst_ptr = top.start_pos + 1

\* a scope update that found a Function frame on top to close, the return
\* address on top of the call stack being at or past the genome length
ReturnsPastEnd(e) ==
    /\ Back(e.pre.scope_stack).type = "FUNCTION"
    /\ e.arg + 1 <= Back(e.pre.scope_stack).scope
    /\ Len(e.pre.call_stack) > 0
    /\ Back(e.pre.call_stack) >= Len(genome)

(* C19 as stated: when a Function frame is closed and the return address on
   top of the call stack is at or past the genome length, then after that step
   the scope stack is Root only, the call stack is empty, and the instruction
   at position 0 was dispatched. *)
OrigC19 ==
    (\E i \in DOMAIN UpdateEvents : ReturnsPastEnd(UpdateEvents[i]))
    => /\ scope_stack = <<RootFrame>>
       /\ call_stack = <<>>
       /\ \E j \in DOMAIN InstEvents : InstEvents[j].pos = 0

(* C19 as amended: when a Function frame is closed and the return address on
   top of the call stack is at or past the genome length, the machine does the
   wrap-around reset instead of a normal return: the instruction at position 0
   is dispatched in that step, and when it is dispatched the scope stack is
   Root only and the call stack and the backup stack are empty. *)
InvC19 ==
    \A i \in DOMAIN UpdateEvents :
        ReturnsPastEnd(UpdateEvents[i])
        => \E j \in DOMAIN InstEvents :
               /\ InstEvents[j].lvl = UpdateEvents[i].lvl + 1
               /\ InstEvents[j].pos = 0
               /\ InstEvents[j].pre.scope_stack = <<RootFrame>>
               /\ InstEvents[j].pre.call_stack = <<>>
               /\ InstEvents[j].pre.reg_stack = <<>>

\* a function returned past the end of the genome, and the instruction at
\* position 0, dispatched after the reset, opened a scope
WitC19 ==
    /\ \E i \in DOMAIN UpdateEvents : ReturnsPastEnd(UpdateEvents[i])
    /\ Len(scope_stack) > 1

\* the body of the function defined at position D: the positions between the
\* Define and the next instruction opening a scope of internal depth <= body_depth+1
Body(D) == D + 1 .. FirstStop(D, InstScope(GetInst(D))) - 1

(* C20: a Define(slot, body_depth) executed at a depth shallower than
   body_depth+1 records its own position as the slot's entry address, leaves
   the scope stack as it was before the step and puts the pointer past the
   function body without dispatching anything else; and an instruction of the
   body of a recorded Define has been executed only if that slot has been
   called. *)
InvC20 ==
    /\ (SteppedInside /\ FirstInst.id = "Define" /\ InstScope(FirstInst) > CurScope(prev))
       => /\ fun_starts = [prev.fun_starts EXCEPT ![Arg(FirstInst, 0)] = prev.inst_ptr]
          /\ scope_stack = prev.scope_stack
          /\ Len(InstEvents) = 1
          /\ inst_ptr = FirstStop(prev.inst_ptr, InstScope(FirstInst))
    /\ \A D \in 0 .. Len(genome) - 1 :
           (GetInst(D).id = "Define" /\ fun_starts[Arg(GetInst(D), 0)] = D)
           => \A p \in Body(D) : execs[p] > 0 => Arg(GetInst(D), 0) \in called

----------------------------------------------------------------------------
(* Calls *)

\* the entry address the slot of the Call instruction `inst` holds in state c
EntryOf(c, inst) == c.fun_starts[Arg(inst, 0)]

\* the test a Call makes first: the entry address is inside the genome and holds
\* a Function-kind instruction
WellFormed(c, inst) ==
    /\ EntryOf(c, inst) >= 0 /\ EntryOf(c, inst) < Len(genome)
    /\ GetScopeType(GetInst(EntryOf(c, inst)).id) = "FUNCTION"

\* the instruction the last step dispatched last
LastInst == GetInst(LastInstEvent.pos)

\* the last instruction dispatched in the last step was a Call of a defined
\* function, made at a depth shallower than the function's depth
CallEntered ==
    /\ Stepped
    /\ LastInst.id = "Call"
    /\ WellFormed(LastInstEvent.pre, LastInst)
    /\ InstScope(GetInst(EntryOf(LastInstEvent.pre, LastInst))) > CurScope(LastInstEvent.pre)

(* C21: a Call of a defined function made at position P from a depth shallower
   than the function's depth pushes exactly one call-stack entry, with value
   P+1, and exactly one frame, of Function kind and of the function's depth,
   and changes no register (nor the backup stack, the function table or the
   error counter). *)
InvC21 ==
    CallEntered
    => LET pre == LastInstEvent.pre
           D == EntryOf(pre, LastInst)
       IN /\ call_stack = Append(pre.call_stack, pre.inst_ptr + 1)
          /\ scope_stack = Append(pre.scope_stack,
                                  ScopeInfo(InstScope(GetInst(D)), "FUNCTION", pre.inst_ptr))
          /\ regs = pre.regs
          /\ reg_stack = pre.reg_stack
          /\ fun_starts = pre.fun_starts
          /\ errors = pre.errors

\* a function was called from inside another frame, at a position other than 0
WitC21 ==
    /\ CallEntered
    /\ LastInstEvent.pos > 0
    /\ Len(LastInstEvent.pre.scope_stack) > 1
    /\ Len(call_stack) >= 1

\* the last instruction dispatched in the last step was a Call of a slot that is
\* undefined, or whose entry address is outside the genome or holds no Define
MalformedCall ==
    /\ Stepped
    /\ LastInst.id = "Call"
    /\ ~WellFormed(LastInstEvent.pre, LastInst)

(* C22: a Call of a slot that is undefined, or whose entry address is outside
   the genome, or whose entry address holds no Define, leaves registers, scope
   stack, call stack, backup stack, function table and error counter as they
   were when it was dispatched; the step ends with the pointer advanced by
   one and nothing else changed. *)
InvC22 ==
    MalformedCall
    => /\ Core(HW) = [LastInstEvent.pre EXCEPT !.inst_ptr = @ + 1]
       /\ (SteppedInside /\ Len(InstEvents) = 1)
          => Core(HW) = [prev EXCEPT !.inst_ptr = @ + 1]

\* a Call of a stale slot, its entry address inside the genome but not on a
\* Define, made inside a scope
WitC22 ==
    /\ MalformedCall
    /\ EntryOf(LastInstEvent.pre, LastInst) >= 0
    /\ EntryOf(LastInstEvent.pre, LastInst) < Len(genome)
    /\ Len(scope_stack) > 1
    /\ SteppedInside

\* a Call of a slot whose entry address is the genome length
CallOutsideGenome ==
    /\ MalformedCall
    /\ EntryOf(LastInstEvent.pre, LastInst) >= Len(genome)

\* a Call of a slot that was never defined
CallUndefined ==
    /\ MalformedCall
    /\ EntryOf(LastInstEvent.pre, LastInst) = -1

----------------------------------------------------------------------------
(* Arithmetic faults *)

\* the last instruction dispatched in the last step was a Div or a Mod
Divided == Stepped /\ LastInst.id \in {"Div", "Mod"}

\* the value of its divisor register when it was dispatched
Divisor == LastInstEvent.pre.regs[Arg(LastInst, 1)]

(* C23: a Div or Mod whose divisor register holds zero increments the error
   counter by exactly one and changes nothing else but the pointer, which
   advances by one: every register, the destination included, and all stacks
   are as before; with a nonzero divisor the error counter is unchanged (and
   so are the stacks, the pointer advancing by one). *)
InvC23 ==
    Divided
    => IF Divisor = 0
       THEN Core(HW) = [LastInstEvent.pre EXCEPT !.errors = @ + 1, !.inst_ptr = @ + 1]
       ELSE /\ errors = LastInstEvent.pre.errors
            /\ [Core(HW) EXCEPT !.regs = LastInstEvent.pre.regs]
                   = [LastInstEvent.pre EXCEPT !.inst_ptr = @ + 1]

\* a second division by zero, made inside a scope with a register backup pending
WitC23 ==
    /\ Divided /\ Divisor = 0
    /\ errors >= 2
    /\ Len(scope_stack) > 1 /\ Len(reg_stack) >= 1

\* a modulo by zero; a division and a modulo by a nonzero register
ModByZero == Divided /\ Divisor = 0 /\ LastInst.id = "Mod"

DivByNonzero == Divided /\ Divisor # 0 /\ LastInst.id = "Div" /\ regs # LastInstEvent.pre.regs

ModByNonzero == Divided /\ Divisor # 0 /\ LastInst.id = "Mod" /\ regs # LastInstEvent.pre.regs

----------------------------------------------------------------------------
(* Process *)

\* j calls of SingleProcess, one after the other
RECURSIVE RunSteps(_, _)
RunSteps(m, j) ==
    IF j = 0 THEN m ELSE RunSteps(SingleProcess([m EXCEPT !.log = <<>>]), j - 1)

Halted(m) == GetTrait(m, HALT_TRAIT) = 1

Min(a, b) == IF a < b THEN a ELSE b

\* k: the number of steps after which the halt trait is first set when the
\* machine m is stepped; `none` if it is not set within `most` steps
StepsToHalt(m, most, none) ==
    LET S == {j \in 0 .. most : Halted(RunSteps(m, j))}
    IN IF S = {} THEN none ELSE CHOOSE j \in S : \A i \in S : j <= i

\* the engine's state, the inputs and outputs and the traits
Visible(m) == [core |-> Core(m), inputs |-> m.inputs, outputs |-> m.outputs,
               traits |-> m.traits]

(* C24: Process(n) performs exactly min(n, k) single steps, k being the number
   of steps after which the halt trait is first set (0 when it is set on
   entry): the machine is left exactly as min(n, k) calls of SingleProcess
   leave it, so no step is executed once the trait is set and the step that
   sets it is completed; if the trait is not set within n steps, n steps are
   executed. *)
InvC24 ==
    proc.k = "Process"
    => LET n == proc.num_inst
           k == StepsToHalt(proc.entry, n, n + 1)
       IN /\ proc.done = Min(n, k)
          /\ Visible(HW) = Visible(RunSteps(proc.entry, Min(n, k)))
          /\ Halted(proc.entry) => (proc.done = 0 /\ Visible(HW) = Visible(proc.entry))
          /\ k > n => (proc.done = n /\ ~Halted(HW))
          /\ proc.done < n => Halted(HW)

\* Process(MaxProc) stopped early, after the step that set the halt trait, that
\* step being not the first one
WitC24 ==
    /\ proc.k = "Process"
    /\ proc.num_inst = MaxProc
    /\ proc.done >= 2 /\ proc.done < MaxProc
    /\ ~Halted(proc.entry)
    /\ Halted(HW)

\* Process(n) with n > 0 on a machine whose halt trait is set; Process(MaxProc)
\* running all its steps
ProcessHalted == proc.k = "Process" /\ proc.num_inst > 0 /\ Halted(proc.entry)

ProcessToTheEnd == proc.k = "Process" /\ proc.done = MaxProc /\ ~Halted(HW)

----------------------------------------------------------------------------
(* The order of the frames *)

\* the depths of the frames of ss strictly increase from the bottom, which has depth 0
Increasing(ss) ==
    /\ Len(ss) >= 1 /\ ss[1].scope = 0
    /\ \A i \in 1 .. Len(ss) - 1 : ss[i].scope < ss[i + 1].scope

(* C25: in every reachable state the depths of the frames on the scope stack
   strictly increase from the bottom frame (Root, depth 0) to the top; so they
   do whenever an instruction is dispatched inside a step. *)
InvC25 ==
    /\ Increasing(scope_stack)
    /\ \A i \in DOMAIN InstEvents : Increasing(InstEvents[i].pre.scope_stack)

\* three frames or more, the last step having exited a frame and pushed one,
\* and two neighbouring frames whose depths differ by more than one
WitC25 ==
    /\ Stepped
    /\ Len(scope_stack) >= 3
    /\ Len(ExitEvents) >= 1 /\ Len(PushEvents) >= 1
    /\ \E i \in 1 .. Len(scope_stack) - 1 : scope_stack[i + 1].scope > scope_stack[i].scope + 1

----------------------------------------------------------------------------
(* What the dispatch loop writes *)

\* a Define of slot s ran in the transition: the count of some position holding one rose
DefineRan(s) ==
    \E p \in 0 .. Len(genome) - 1 :
        /\ GetInst(p).id = "Define" /\ Arg(GetInst(p), 0) = s
        /\ execs'[p] > execs[p]

(* C26: no SingleProcess call and no Process call, wrap-around resets and
   re-dispatches inside them included, changes the genome, and a slot of the
   function table has another value after such a call only if a Define of that
   slot ran in it. *)
InvC26 ==
    [][steps' > steps
       => /\ genome' = genome
          /\ \A s \in 0 .. CPU_SIZE - 1 : fun_starts'[s] # fun_starts[s] => DefineRan(s)]_vars

\* after a wrap-around a step redefined a slot, the genome holding two Defines of it
WitC26 ==
    /\ Stepped /\ wraps >= 1
    /\ \E s \in 0 .. CPU_SIZE - 1 :
           /\ fun_starts[s] # prev.fun_starts[s]
           /\ prev.fun_starts[s] # -1

\* a Process call that ran two steps or more, one of them a Define; a step in
\* which two instructions were dispatched, with a wrap-around reset between
\* them, and a slot of the function table defined
ProcessDefined ==
    /\ proc.k = "Process" /\ proc.done >= 2
    /\ fun_starts # proc.entry.fun_starts

RedispatchKeepsTable ==
    /\ Stepped /\ Len(InstEvents) >= 2
    /\ \E i \in DOMAIN log : log[i].k = "reset"
    /\ \E s \in 0 .. CPU_SIZE - 1 : fun_starts[s] # -1

----------------------------------------------------------------------------
(* Instructions without a scope kind *)

\* the instructions that have no scope kind and are not Break, Call or ScopeReg
PlainIds ==
    {"Inc", "Dec", "Not", "SetReg", "Add", "Sub", "Mult", "Div", "Mod",
     "TestEqu", "TestNEqu", "TestLess", "CopyVal", "Input", "Output", "EndTurn"}

\* the last step was taken with the pointer inside the genome, on such an instruction
PlainStep == SteppedInside /\ FirstInst.id \in PlainIds

(* C27: a step taken with the pointer inside the genome on an instruction that
   has no scope kind and is not Break, Call or ScopeReg dispatches that
   instruction only, advances the pointer by exactly one, and leaves the scope
   stack, the call stack, the backup stack and the function table as they were. *)
InvC27 ==
    PlainStep =>
        /\ Len(InstEvents) = 1
        /\ inst_ptr = prev.inst_ptr + 1
        /\ scope_stack = prev.scope_stack
        /\ call_stack = prev.call_stack
        /\ reg_stack = prev.reg_stack
        /\ fun_starts = prev.fun_starts

\* such a step inside a scope with a register backup pending
WitC27 == PlainStep /\ Len(scope_stack) > 1 /\ Len(reg_stack) > 0

\* such a step inside a called function, the function table holding an entry
PlainInFunction ==
    PlainStep /\ Len(call_stack) > 0 /\ \E s \in DOMAIN fun_starts : fun_starts[s] # -1

\* such a step that writes an output, and one that reads an input that was set
PlainOutput == PlainStep /\ FirstInst.id = "Output" /\ DOMAIN outputs # {}

PlainInput ==
    PlainStep /\ FirstInst.id = "Input" /\ DOMAIN inputs # {}
    /\ regs[Arg(FirstInst, 1)] = InputValue

----------------------------------------------------------------------------
(* The step after a Call *)

\* the entry address D of the function the last step called
CalledEntry == EntryOf(LastInstEvent.pre, LastInst)

\* a SingleProcess call follows a step that ended in a successful Call of a function
\* whose body has a first instruction inside the genome
StepAfterCall ==
    /\ CallEntered
    /\ CalledEntry + 1 < Len(genome)
    /\ steps' = steps + 1
    /\ proc' = NoProcess

(* C30: after a successful Call of a function whose Define is at position D, the
   first instruction the following SingleProcess dispatches is the one at D+1,
   the first instruction of the function body. *)
InvC30 == [][StepAfterCall => InstEvents'[1].pos = CalledEntry + 1]_vars

\* what the code does: the following step dispatches the instruction at D+2, or
\* wraps around when D+2 is the genome length
ResumesPastBody ==
    [][StepAfterCall =>
           IF CalledEntry + 2 < Len(genome)
           THEN InstEvents'[1].pos = CalledEntry + 2
           ELSE wraps' = wraps + 1 /\ InstEvents'[1].pos = 0]_vars

\* the pointer a successful Call leaves behind, after the increment of SingleProcess
AfterCallPointer == CallEntered => inst_ptr = CalledEntry + 2

----------------------------------------------------------------------------
(* Several machines on one instruction library *)

\* AvidaGP(inst_lib): the machine the constructor leaves, as a record
Constructed ==
    [genome |-> <<>>, regs |-> [i \in 0 .. CPU_SIZE - 1 |-> i],
     inputs |-> <<>>, outputs |-> <<>>,
     fun_starts |-> [i \in 0 .. CPU_SIZE - 1 |-> -1], inst_ptr |-> 0,
     scope_stack |-> <<RootFrame>>, reg_stack |-> <<>>, call_stack |-> <<>>,
     errors |-> 0, traits |-> SetTrait(<<>>, HALT_TRAIT, 0),
     log |-> <<>>, shadow |-> <<>>, execs |-> <<>>, wraps |-> 0,
     fault |-> {}, called |-> {}, lvl |-> 0]

\* PushInst for every instruction of g, then SetInputs(in)
Loaded(g, in) ==
    [Constructed EXCEPT !.genome = g, !.inputs = in,
                        !.execs = [p \in 0 .. Len(g) - 1 |-> 0]]

\* a function call, inputs and outputs with the end of the turn, a countdown
\* loop, and a register backup restored at the end of its scope
FleetGenomes ==
    {<<Inst("Define", 0, 1, 0), Inst("Inc", 2, 0, 0), Inst("Scope", 0, 0, 0),
       Inst("Call", 0, 0, 0)>>,
     <<Inst("Input", 0, 3, 0), Inst("Output", 3, 1, 0), Inst("EndTurn", 0, 0, 0)>>,
     <<Inst("Countdown", 2, 0, 0), Inst("Add", 3, 2, 3), Inst("Scope", 0, 0, 0)>>,
     <<Inst("Scope", 0, 0, 0), Inst("ScopeReg", 3, 0, 0), Inst("SetReg", 3, 5, 0),
       Inst("Div", 3, 0, 4)>>}

FleetInputs == {<<>>, Put(<<>>, 0, InputValue)}

\* a machine of the fleet: hw is the machine, start the machine as it was
\* handed over, n the number of SingleProcess calls made on it since
FleetStarts ==
    {[hw |-> Loaded(g, in), start |-> Loaded(g, in), n |-> 0] :
        g \in FleetGenomes, in \in FleetInputs}

\* Faulty variant: the registers are one array shared by all machines
StepInstance_SharedRegs(f, i) ==
    [f EXCEPT !.vm = [j \in DOMAIN f.vm |->
        IF j = i
        THEN [f.vm[i] EXCEPT !.hw = SingleProcess([@ EXCEPT !.log = <<>>]), !.n = @ + 1]
        ELSE [f.vm[j] EXCEPT !.hw.regs = SingleProcess(f.vm[i].hw).regs]]]

\* Faulty variant: the step depends on which machine takes it
StepInstance_ByIdentity(f, i) ==
    [f EXCEPT !.vm[i].hw = [SingleProcess([@ EXCEPT !.log = <<>>]) EXCEPT !.errors = @ + i - 1],
              !.vm[i].n = @ + 1]

\* SingleProcess() on machine i: inst_lib->ProcessInst(*this, genome[inst_ptr])
\* reads the library and writes the members of machine i
StepInstance(f, i) ==
    [f EXCEPT !.vm[i].hw = SingleProcess([@ EXCEPT !.log = <<>>]), !.vm[i].n = @ + 1]

\* machine i after a call of Process whose result is r
Processed(f, i, r) == [f EXCEPT !.vm[i].hw = r.hw, !.vm[i].n = @ + r.done]

\* Process(num_inst) on machine i
ProcessInstance(f, i, num_inst) ==
    Processed(f, i, Process(f.vm[i].hw, Core(f.vm[i].hw), num_inst))

MainVars ==
    <<genome, regs, inputs, outputs, fun_starts, inst_ptr, scope_stack, reg_stack,
      call_stack, errors, traits, log, prev, shadow, execs, wraps, fault, called,
      steps, proc>>

\* FleetSize machines are constructed on the default library and loaded
FleetInit ==
    /\ ConstructorState
    /\ fleet \in {[inst_lib |-> DefaultInstLib, vm |-> v] :
                     v \in [1 .. FleetSize -> FleetStarts]}
    /\ lib = LibReady

\* any machine takes the next step
FleetStep ==
    /\ \E i \in DOMAIN fleet.vm :
           /\ fleet.vm[i].n < MaxRun
           /\ fleet' = StepInstance(fleet, i)
    /\ UNCHANGED <<MainVars, lib>>

\* any machine runs Process(num_inst)
FleetProcess ==
    /\ \E i \in DOMAIN fleet.vm, num_inst \in 1 .. 2 :
           /\ fleet.vm[i].n + num_inst <= MaxRun
           /\ fleet' = ProcessInstance(fleet, i, num_inst)
    /\ UNCHANGED <<MainVars, lib>>

FleetNext == FleetStep \/ FleetProcess

SpecFleet == FleetInit /\ [][FleetNext]_vars

\* the record Constructed is the machine of Init
ConstructedIsInit == HW = Constructed

(* C28: two machines that were handed over in the same state (genome,
   registers, inputs, stacks, function table, traits) and have taken the same
   number of steps are in the same state: pointer, registers, stacks, function
   table, inputs, outputs, error counter and traits. *)
InvC28 ==
    \A i, j \in DOMAIN fleet.vm :
        fleet.vm[i].start = fleet.vm[j].start /\ fleet.vm[i].n = fleet.vm[j].n
            => Visible(fleet.vm[i].hw) = Visible(fleet.vm[j].hw)

\* two machines with the same start, MaxRun steps each, after a function call
\* and a wrap-around
WitC28 ==
    \E i, j \in DOMAIN fleet.vm :
        /\ i # j
        /\ fleet.vm[i].start = fleet.vm[j].start
        /\ fleet.vm[i].n = MaxRun /\ fleet.vm[j].n = MaxRun
        /\ fleet.vm[i].hw.called # {} /\ fleet.vm[i].hw.wraps > 0

\* the same, the machines having read an input and written an output
SameOutputs ==
    \E i, j \in DOMAIN fleet.vm :
        /\ i # j
        /\ fleet.vm[i].start = fleet.vm[j].start
        /\ fleet.vm[i].n = fleet.vm[j].n
        /\ DOMAIN fleet.vm[i].hw.outputs # {} /\ DOMAIN fleet.vm[i].start.inputs # {}

(* C29: whatever the order in which the machines were stepped, the library is
   what it was when they were built, and each machine is in the state that its
   own number of steps, run alone from its start, leaves. *)
InvC29 ==
    /\ fleet.inst_lib = DefaultInstLib
    /\ \A i \in DOMAIN fleet.vm :
           Visible(fleet.vm[i].hw) = Visible(RunSteps(fleet.vm[i].start, fleet.vm[i].n))

\* two machines with different genomes, each stepped, by different numbers of steps
WitC29 ==
    \E i, j \in DOMAIN fleet.vm :
        /\ fleet.vm[i].start.genome # fleet.vm[j].start.genome
        /\ fleet.vm[i].n >= 2 /\ fleet.vm[j].n > fleet.vm[i].n
        /\ fleet.vm[i].hw.regs # fleet.vm[j].hw.regs
        /\ fleet.vm[i].hw.inst_ptr # fleet.vm[j].hw.inst_ptr

\* a step of one machine leaves the other machines and the library as they were
OthersUntouched ==
    [][\A i \in DOMAIN fleet.vm :
           fleet'.vm[i] # fleet.vm[i] =>
               /\ fleet'.inst_lib = fleet.inst_lib
               /\ \A j \in DOMAIN fleet.vm \ {i} : fleet'.vm[j] = fleet.vm[j]]_vars

----------------------------------------------------------------------------
(* The chain of re-dispatches *)

\* the deepest nesting of ProcessInst calls in the last step
RECURSIVE MaxLvl(_)
MaxLvl(evs) == IF evs = <<>> THEN 0
               ELSE IF evs[1].lvl > MaxLvl(Tail(evs)) THEN evs[1].lvl ELSE MaxLvl(Tail(evs))

(* C31: every SingleProcess step on a non-empty genome ends, and the chain of
   dispatches it makes (the instruction fetched, then the re-dispatches after a
   loop-back or a function return) is no longer than the number of frames on
   the scope stack when the step began, plus one. *)
InvC31 ==
    Stepped =>
        /\ Len(InstEvents) >= 1
        /\ Len(InstEvents) <= Len(prev.scope_stack) + 1
        /\ MaxLvl(InstEvents) <= Len(prev.scope_stack) + 1

\* a step whose chain holds three dispatches or more
WitC31 == Stepped /\ Len(InstEvents) >= 3 /\ MaxLvl(InstEvents) >= 3

\* the chain is in fact no longer than the number of frames: every re-dispatch
\* follows the exit of a frame other than Root
ChainWithinFrames == Stepped => Len(InstEvents) <= Len(prev.scope_stack)

----------------------------------------------------------------------------
(* The order and the owners of the register backups *)

\* the scope ids of the frames on the scope stack
FrameScopes == {scope_stack[j].scope : j \in 1 .. Len(scope_stack)}

BackupsOrdered ==
    \A i \in 1 .. (Len(reg_stack) - 1) : reg_stack[i].scope <= reg_stack[i + 1].scope

BackupsOwned ==
    \A i \in 1 .. Len(reg_stack) : reg_stack[i].scope \in FrameScopes

(* C32: in every reachable state the register backups are ordered by the scope
   id of their owner, non-decreasing from the bottom of the stack to its top,
   and the owner of every pending backup is the scope id of a frame that is on
   the scope stack. *)
InvC32 == BackupsOrdered /\ BackupsOwned

\* after a step, backups of two different scopes are pending, the lower one
\* owned by a frame other than the top one
WitC32 ==
    /\ Stepped
    /\ Len(reg_stack) >= 2
    /\ reg_stack[1].scope < Back(reg_stack).scope
    /\ Len(scope_stack) >= 2

\* a scope that owned a backup has been closed and backups of an outer scope remain
WitC32Closed ==
    /\ Stepped
    /\ Len(ExitEvents) >= 1
    /\ Len(ExitEvents[1].restored) >= 1
    /\ Len(reg_stack) >= 1

----------------------------------------------------------------------------
(* Function frames and the call stack *)

FunctionFrames(ss) == Len(SelectSeq(ss, LAMBDA f : f.type = "FUNCTION"))

\* the UpdateScope calls of the last step that took the function-return branch
ReturnEvents ==
    SelectSeq(UpdateEvents,
              LAMBDA e : /\ e.arg + 1 <= (IF Len(e.pre.scope_stack) = 0 THEN 0
                                          ELSE Back(e.pre.scope_stack).scope)
                         /\ Len(e.pre.scope_stack) > 0
                         /\ Back(e.pre.scope_stack).type = "FUNCTION")

(* C33: in every state reached from a hardware reset by executing instructions,
   a Function frame on top of the scope stack comes with a non-empty call
   stack, so the function return of UpdateScope and the prediction of the next
   instruction never read the top of an empty call stack. *)
InvC33 ==
    /\ CurScopeType(HW) = "FUNCTION" => Len(call_stack) > 0
    /\ \A i \in 1 .. Len(ReturnEvents) : Len(ReturnEvents[i].pre.call_stack) > 0
    /\ "UpdateScope: call_stack.back() on empty" \notin fault

\* a step made a function return, and a step ended inside a function
WitC33 == Stepped /\ Len(ReturnEvents) >= 1

WitC33Inside == Stepped /\ CurScopeType(HW) = "FUNCTION" /\ Len(call_stack) > 0

\* there are never more Function frames than return addresses
FramesHaveReturns == FunctionFrames(scope_stack) <= Len(call_stack)

----------------------------------------------------------------------------
(* Every fetch is inside the genome *)

\* the highest position the scan of a recorded bypass read: the scan stops
\* either one position before the instruction it found or at the last position
HighestScanned(e) == IF e.to + 1 < Len(genome) THEN e.to + 1 ELSE e.to

(* C34: with a non-empty genome that is not changed while it runs, every
   instruction fetch of a step (the fetch of SingleProcess, the re-dispatch
   after a loop-back or a function return, the reads of the bypass scan) is at
   a position below the genome length, and so is the start position of every
   frame. *)
InvC34 ==
    Len(genome) > 0 =>
        /\ \A i \in 1 .. Len(InstEvents) : InstEvents[i].pos < Len(genome)
        /\ \A i \in 1 .. Len(BypassEvents) :
               /\ BypassEvents[i].from < Len(genome)
               /\ HighestScanned(BypassEvents[i]) < Len(genome)
        /\ \A i \in 1 .. Len(PushEvents) : PushEvents[i].frame.start_pos < Len(genome)
        /\ \A j \in 1 .. Len(scope_stack) : scope_stack[j].start_pos < Len(genome)

\* a step that re-dispatched after a function return or a loop-back, and a
\* step whose scan ran to the last position of the genome
WitC34 == Stepped /\ Len(InstEvents) >= 2 /\ Len(scope_stack) >= 2

WitC34Scan ==
    /\ Stepped
    /\ Len(BypassEvents) >= 1
    /\ BypassEvents[1].to = Len(genome) - 1
    /\ BypassEvents[1].from < BypassEvents[1].to

\* a step that began with the pointer past the end and fetched position 0
WitC34Wrap == Stepped /\ prev.inst_ptr >= Len(genome) /\ InstEvents[1].pos = 0

----------------------------------------------------------------------------
(* What the wrap-around reset leaves alone *)

\* the registers with a pending backup
BackedUp(rs) == {rs[i].reg_id : i \in 1 .. Len(rs)}

\* r is the machine m after ResetIP: what must be as it was in m
ResetIPFrame(m, r) ==
    /\ r.genome = m.genome
    /\ r.fun_starts = m.fun_starts
    /\ r.errors = m.errors
    /\ r.inputs = m.inputs
    /\ r.outputs = m.outputs
    /\ r.traits = m.traits
    /\ \A i \in 0 .. CPU_SIZE - 1 : i \notin BackedUp(m.reg_stack) => r.regs[i] = m.regs[i]

(* C35: the wrap-around reset changes the pointer, the scope stack, the call
   stack, the backup stack and the registers with pending backups only: every
   other register keeps its value, and the function table, the error counter,
   the inputs, the outputs and the traits are as before, so that a function
   defined in one pass can be called in the next pass before its Define is
   reached again. *)
InvC35 ==
    /\ ResetIPFrame(HW, ResetIP(HW))
    /\ (Stepped /\ prev.inst_ptr >= Len(genome))
       => /\ InstEvents[1].pre.fun_starts = prev.fun_starts
          /\ InstEvents[1].pre.errors = prev.errors
          /\ \A i \in 0 .. CPU_SIZE - 1 :
                 i \notin BackedUp(prev.reg_stack) => InstEvents[1].pre.regs[i] = prev.regs[i]

\* a step that wrapped around with a backup pending and a register without a
\* backup changed from its initial value
WitC35 ==
    /\ Stepped /\ prev.inst_ptr >= Len(genome)
    /\ Len(prev.reg_stack) >= 1
    /\ \E i \in 0 .. CPU_SIZE - 1 : i \notin BackedUp(prev.reg_stack) /\ prev.regs[i] # i

\* a step that wrapped around with a function defined
WitC35Defined ==
    /\ Stepped /\ prev.inst_ptr >= Len(genome)
    /\ \E i \in 0 .. CPU_SIZE - 1 : prev.fun_starts[i] >= 0

\* in a later pass, a Call placed before the Define of its function enters it
WitC35Call ==
    /\ CallEntered
    /\ wraps >= 1
    /\ LastInstEvent.pos < EntryOf(LastInstEvent.pre, LastInst)

----------------------------------------------------------------------------
(* The halt trait is sticky *)

\* the state of the machine, without the history
MachineVars == <<genome, regs, inputs, outputs, fun_starts, inst_ptr, scope_stack,
                 reg_stack, call_stack, errors, traits>>

HaltSet == Halted(HW)

(* C36: once EndTurn has set the halt trait, every later call of Process(n),
   whatever n, leaves the whole state of the machine as it is; the trait stays
   set over single steps and over ResetHardware, and only the full Reset
   clears it. *)
InvC36 ==
    [][HaltSet =>
          /\ proc'.k = "Process" => (UNCHANGED MachineVars /\ proc'.done = 0)
          /\ log' # <<[k |-> "Reset()"]>> => HaltSet']_vars

\* Process(n), n > 0, called on a halted machine
WitC36 == proc.k = "Process" /\ proc.num_inst > 0 /\ Halted(proc.entry)

\* the same after a ResetHardware that followed the halt
WitC36Reset == WitC36 /\ log = <<[k |-> "ResetHardware()"]>>

----------------------------------------------------------------------------
(* A Call from a frame that is not shallower than the function *)

\* the last step dispatched, first, a Call of a defined function
FirstCall == Stepped /\ FirstInst.id = "Call" /\ WellFormed(InstEvents[1].pre, FirstInst)

\* the engine's state when that Call was dispatched
CallAt == InstEvents[1].pre

\* the depth of the called function, as InstScope gives it
FunDepth == InstScope(GetInst(EntryOf(CallAt, FirstInst)))

\* the UpdateScope calls made for that Call; a retry is recorded before the
\* call that made it, so the last one is the call made by Inst_Call
CallUpdates == SelectSeq(UpdateEvents, LAMBDA e : e.lvl = 1 /\ e.type = "FUNCTION")

CallUpdate == CallUpdates[Len(CallUpdates)]

\* the value UpdateScope returned to Inst_Call
CallPushed == CallUpdate.ret

\* the Call was made from a frame at the function's depth or deeper
CallFromInside == FirstCall /\ FunDepth <= CurScope(CallAt)

\* the first frame exited in the step was the frame the Call was made from
ClosedCurrent ==
    /\ Len(ExitEvents) >= 1
    /\ ExitEvents[1].pre.scope_stack = CallAt.scope_stack

(* C37 as stated: a Call made from inside a frame at the function's depth or
   deeper never pushes a call-stack entry (a Call pushes only when the
   function's depth is strictly deeper than the current frame's) and closes the
   current scope instead. *)
OrigC37 == CallFromInside => (~CallPushed /\ ClosedCurrent)

\* what Inst_Call does with the result u of its UpdateScope call
CallRule(u) ==
    /\ (FunDepth > CurScope(CallAt)) => u.ret
    /\ (CallFromInside /\ CurScopeType(CallAt) \in {"LOOP", "FUNCTION"})
       => (~u.ret /\ Len(CallUpdates) = 1 /\ ClosedCurrent)
    /\ (CallFromInside /\ CurScopeType(CallAt) = "BASIC")
       => /\ ClosedCurrent
          /\ Len(CallUpdates) >= 2
          /\ u.ret = CallUpdates[Len(CallUpdates) - 1].ret
    /\ u.ret => /\ call_stack = Append(u.post.call_stack, CallAt.inst_ptr + 1)
                /\ scope_stack = u.post.scope_stack
                /\ CurScopeType(HW) = "FUNCTION"
    /\ ~u.ret => /\ call_stack = u.post.call_stack
                 /\ scope_stack = u.post.scope_stack

(* C37 as amended: a Call pushes a Function frame and a call-stack entry when
   the function's depth is strictly deeper than the current frame's. A Call
   made from inside a Loop or Function frame at the function's depth or deeper
   (a function calling itself) pushes nothing and closes the current frame (the
   loop goes back, the running function returns). A Call made from inside a
   Basic frame at the function's depth or deeper closes that frame and retries
   against the frame below, and pushes a Function frame and a call-stack entry
   if and only if the retry enters. *)
InvC37 == FirstCall => CallRule(CallUpdate)

\* a function called itself, and a function was called from a loop
WitC37 == CallFromInside /\ CurScopeType(CallAt) = "FUNCTION" /\ ~CallPushed

WitC37Loop == CallFromInside /\ CurScopeType(CallAt) = "LOOP" /\ ~CallPushed

\* a Call from a Basic frame of the function's depth closed it and entered
WitC37Basic == CallFromInside /\ CurScopeType(CallAt) = "BASIC" /\ CallPushed

----------------------------------------------------------------------------
(* The stacks from one pass of a loop to the next *)

\* e records an UpdateScope call that took the loop-back branch
LoopBack(e) ==
    /\ Len(e.pre.scope_stack) > 0
    /\ Back(e.pre.scope_stack).type = "LOOP"
    /\ e.arg + 1 <= Back(e.pre.scope_stack).scope

\* the loop-back e was the last of the step, its guard entered the loop again
\* and the step ended there: the state is the start of the next pass
NextPassBegan(e) ==
    /\ LoopBack(e)
    /\ Len(InstEvents) = e.lvl + 1
    /\ Len(scope_stack) = Len(e.pre.scope_stack)
    /\ Back(scope_stack).type = "LOOP"
    /\ Back(scope_stack).start_pos = Back(e.pre.scope_stack).start_pos
    /\ inst_ptr = Back(scope_stack).start_pos + 1

\* the backups the loop frame closed by e owned
OwnedByLoop(e) ==
    SelectSeq(e.pre.reg_stack, LAMBDA b : b.scope = Back(e.pre.scope_stack).scope)

\* the state in which the guard was dispatched again after the loop-back e
GuardAt(e) == InstEvents[e.lvl + 1].pre

(* C38: a loop does not grow the stacks from pass to pass: when the closing
   instruction finds the loop's frame on top, the scope stack at the start of
   the next pass (sizes, depths, kinds, start positions) is the one of the pass
   that ended, and every backup pushed inside the body has been restored and
   removed when the guard is tested again. *)
InvC38 ==
    Stepped =>
        \A i \in DOMAIN UpdateEvents :
            /\ LoopBack(UpdateEvents[i]) =>
                   /\ GuardAt(UpdateEvents[i]).scope_stack
                          = PopBack(UpdateEvents[i].pre.scope_stack)
                   /\ GuardAt(UpdateEvents[i]).reg_stack
                          = SubSeq(UpdateEvents[i].pre.reg_stack, 1,
                                   Len(UpdateEvents[i].pre.reg_stack)
                                       - Len(OwnedByLoop(UpdateEvents[i])))
                   /\ \A k \in DOMAIN GuardAt(UpdateEvents[i]).reg_stack :
                          GuardAt(UpdateEvents[i]).reg_stack[k].scope
                              < Back(UpdateEvents[i].pre.scope_stack).scope
            /\ NextPassBegan(UpdateEvents[i]) =>
                   scope_stack = UpdateEvents[i].pre.scope_stack

\* the parts of C38 that hold: the size, the kinds and the start positions of
\* the scope stack, and the backups
LoopStacksKeepSize ==
    Stepped =>
        \A i \in DOMAIN UpdateEvents :
            NextPassBegan(UpdateEvents[i]) =>
                /\ Len(scope_stack) = Len(UpdateEvents[i].pre.scope_stack)
                /\ \A j \in DOMAIN scope_stack :
                       /\ scope_stack[j].type = UpdateEvents[i].pre.scope_stack[j].type
                       /\ scope_stack[j].start_pos = UpdateEvents[i].pre.scope_stack[j].start_pos
                /\ PopBack(scope_stack) = PopBack(UpdateEvents[i].pre.scope_stack)

LoopBackupsRestored ==
    Stepped =>
        \A i \in DOMAIN UpdateEvents :
            LoopBack(UpdateEvents[i]) =>
                /\ GuardAt(UpdateEvents[i]).reg_stack
                       = SubSeq(UpdateEvents[i].pre.reg_stack, 1,
                                Len(UpdateEvents[i].pre.reg_stack)
                                    - Len(OwnedByLoop(UpdateEvents[i])))
                /\ \A k \in DOMAIN GuardAt(UpdateEvents[i]).reg_stack :
                       GuardAt(UpdateEvents[i]).reg_stack[k].scope
                           < Back(UpdateEvents[i].pre.scope_stack).scope

\* a second pass began, with a backup of the first pass removed
SecondPass ==
    Stepped /\ \E i \in DOMAIN UpdateEvents :
                   /\ NextPassBegan(UpdateEvents[i])
                   /\ Len(OwnedByLoop(UpdateEvents[i])) >= 1

\* a second pass began with a frame of another depth than the first
DepthChanged ==
    Stepped /\ \E i \in DOMAIN UpdateEvents :
                   /\ NextPassBegan(UpdateEvents[i])
                   /\ Back(scope_stack).scope # Back(UpdateEvents[i].pre.scope_stack).scope

----------------------------------------------------------------------------
(* Machines constructed at the same time: the first calls of DefaultInstLib() *)

\* lib.constructed: the function-local static object has been constructed
\* lib.slots, lib.size: the storage and the size of the library's vector of
\*     instructions; GetSize() is lib.size
\* lib.args: the loop of AddArg calls has run
\* lib.calls[i]: the number of completed AddInst calls for entry i of the table
\* lib.th[t]: the thread t, which runs AvidaGP() : AvidaGP(DefaultInstLib()):
\*     pc    where it is: "start", "test" (about to read GetSize()), "read" and
\*           "write" (the two halves of an AddInst), "args", "ret" (DefaultInstLib
\*           has returned), "built" (the constructor has ended)
\*     k     the entry of the table it adds next
\*     idx   the end of the vector it read for the entry it is adding
\*     seen  the library as it was when DefaultInstLib() returned to it
\*     overlap  it was inside DefaultInstLib() while another thread was

ThreadIds == 1 .. NumThreads

\* the instructions a reader of the library finds
LibInsts(l) == SubSeq(l.slots, 1, l.size)

LibView(l) == [insts |-> LibInsts(l), args |-> l.args]

FullView == [insts |-> LibTable, args |-> TRUE]

NoView == [insts |-> <<>>, args |-> FALSE]

Inside(th) == th.pc \in {"test", "read", "write", "args"}

\* thread t takes a step that leaves it as the record r and the library as l
\* (the fields of l other than th)
LibStep(t, r, l) ==
    /\ lib' = [l EXCEPT !.th =
                  [lib.th EXCEPT ![t] =
                      [r EXCEPT !.overlap =
                          lib.th[t].overlap
                              \/ \E u \in ThreadIds \ {t} : Inside(lib.th[u])]]]
    /\ UNCHANGED <<MainVars, fleet>>

\* static inst_lib_t inst_lib;  the first thread to arrive constructs the empty
\* library, under the lock the language puts on the initialisation of a
\* function-local static
LibEnter(t) ==
    /\ lib.th[t].pc = "start"
    /\ LibStep(t, [lib.th[t] EXCEPT !.pc = "test"], [lib EXCEPT !.constructed = TRUE])

\* if (inst_lib.GetSize() == 0) { ... } return &inst_lib;  the read is not
\* synchronised with the writes of the other threads
LibTest(t) ==
    /\ lib.th[t].pc = "test"
    /\ IF lib.size = 0
       THEN LibStep(t, [lib.th[t] EXCEPT !.pc = "read", !.k = 1], lib)
       ELSE LibStep(t, [lib.th[t] EXCEPT !.pc = "ret", !.seen = LibView(lib)], lib)

\* inst_lib.AddInst(...), first half: the end of the vector is read
LibAddRead(t) ==
    /\ lib.th[t].pc = "read"
    /\ LibStep(t, [lib.th[t] EXCEPT !.pc = "write", !.idx = lib.size], lib)

\* inst_lib.AddInst(...), second half: the entry is written at the end that was
\* read and the size set to one more; after the last entry the AddArg loop follows
LibAddWrite(t) ==
    /\ lib.th[t].pc = "write"
    /\ LibStep(t,
               [lib.th[t] EXCEPT !.pc = IF lib.th[t].k < NumInsts THEN "read" ELSE "args",
                                 !.k = @ + 1],
               [lib EXCEPT !.slots[lib.th[t].idx + 1] = LibTable[lib.th[t].k],
                           !.size = lib.th[t].idx + 1,
                           !.calls[lib.th[t].k] = @ + 1])

\* for (i < CPU_SIZE) { inst_lib.AddArg(...); inst_lib.AddArg(...); }  return &inst_lib;
LibAddArgs(t) ==
    /\ lib.th[t].pc = "args"
    /\ LibStep(t, [lib.th[t] EXCEPT !.pc = "ret",
                                    !.seen = LibView([lib EXCEPT !.args = TRUE])],
               [lib EXCEPT !.args = TRUE])

\* AvidaGP(Ptr<inst_lib_t> _ilib): the machine is built on the pointer returned
LibBuild(t) ==
    /\ lib.th[t].pc = "ret"
    /\ LibStep(t, [lib.th[t] EXCEPT !.pc = "built"], lib)

LibInit ==
    /\ ConstructorState
    /\ fleet = NoFleet
    /\ lib = [constructed |-> FALSE,
              slots |-> [i \in 1 .. LibCap |-> "none"],
              size |-> 0, args |-> FALSE,
              calls |-> [i \in 1 .. NumInsts |-> 0],
              th |-> [t \in ThreadIds |->
                         [pc |-> "start", k |-> 0, idx |-> 0, seen |-> NoView,
                          overlap |-> FALSE]]]

LibNext ==
    \E t \in ThreadIds :
        \/ LibEnter(t)
        \/ LibTest(t)
        \/ LibAddRead(t)
        \/ LibAddWrite(t)
        \/ LibAddArgs(t)
        \/ LibBuild(t)

SpecLib == LibInit /\ [][LibNext]_vars

Returned(th) == th.pc \in {"ret", "built"}

\* no entry of the table has been registered more than once; no thread has
\* been handed a library that was not complete; when every thread has its
\* machine the library holds the table
PopulatedOnce ==
    /\ \A i \in 1 .. NumInsts : lib.calls[i] <= 1
    /\ \A t \in DOMAIN lib.th : Returned(lib.th[t]) => lib.th[t].seen = FullView
    /\ (\A t \in DOMAIN lib.th : Returned(lib.th[t]))
       => (LibView(lib) = FullView /\ \A i \in 1 .. NumInsts : lib.calls[i] = 1)

(* C39: the default library is populated exactly once: when several machines
   are constructed at the same time and DefaultInstLib() is called for the
   first time by several threads at once, every instruction is registered
   exactly once and no caller is handed a partially filled library. *)
InvC39 == PopulatedOnce

\* what the code gives when the calls do not overlap: the library is populated
\* once, by the first caller
SequentialC39 == (\A t \in DOMAIN lib.th : ~lib.th[t].overlap) => PopulatedOnce

\* two callers were constructed one after the other
SequentialBuilt ==
    /\ \A t \in ThreadIds : lib.th[t].pc = "built" /\ ~lib.th[t].overlap

\* an entry was registered twice; a caller was handed a library with entries missing
TwiceRegistered == \E i \in 1 .. NumInsts : lib.calls[i] >= 2

PartialSeen ==
    \E t \in ThreadIds :
        /\ Returned(lib.th[t])
        /\ Len(lib.th[t].seen.insts) < NumInsts

\* an entry written by one thread was overwritten by another
LostEntry ==
    /\ \A t \in ThreadIds : lib.th[t].pc = "built"
    /\ LibInsts(lib) # LibTable

====
